---- MODULE Spec2Model ----
(***************************************************************************)
(* Snapshot synchronisation of the DoD compliance tracker.                 *)
(*                                                                         *)
(* JiraSnapshotSyncService.sync_active_sprint (jira_sync/service.py) reads *)
(* the active-sprint issue batch from the adapter, and for every sprint of *)
(* the batch builds a fingerprint, asks the change-detection gate whether  *)
(* the newest generation of that sprint already carries it, and otherwise  *)
(* writes one SprintSnapshot with its EpicSnapshots, DoDTaskSnapshots and  *)
(* team links in one transaction.  The tables are those of                 *)
(* compliance/models.py.                                                   *)
(***************************************************************************)
EXTENDS Integers, Sequences, FiniteSets, TLC

\* Number of sync invocations a behaviour holds.
MaxRuns == 3

\* The processes that may call sync_active_sprint (a scheduled and a manual run).
Procs == {1, 2}

NoKey == "none"

(***************************************************************************)
(* The tracker: the issues the adapter can return.  Each record holds what *)
(* the service reads of an issue object.                                   *)
(***************************************************************************)
Keys == {"E1", "E2", "E3", "E9", "T1", "T2", "T3", "T4", "T5", "T6", "T7"}

\* The version tokens ("updated" stamps) an issue may carry.
Tokens == {0, 1}

\* The issues whose "updated" stamp the tracker changes between syncs.
Mutable == {"T1", "T3"}

\* A label the tracker holds: a string, spelt character by character, or a
\* value that is no string.
Str(chars) == [isstr |-> TRUE, chars |-> chars]

NotStr == [isstr |-> FALSE, chars |-> <<>>]

IssueFields(k) ==
    CASE k = "E1" -> [id |-> "100", key |-> "E1", issuetype |-> "Epic",
                      parentKey |-> NoKey, parentType |-> "", epicLink |-> "",
                      sprints |-> <<"10">>, dod |-> FALSE, done |-> FALSE,
                      labels |-> <<Str(<<"s", "q", "u", "a", "d", "_", "a">>)>>]
      [] k = "E2" -> [id |-> "200", key |-> "E2", issuetype |-> "epic",
                      parentKey |-> NoKey, parentType |-> "", epicLink |-> "",
                      sprints |-> <<>>, dod |-> FALSE, done |-> TRUE,
                      labels |-> <<>>]
      \* E3 is an epic of two squads, itself in the sprint.
      [] k = "E3" -> [id |-> "300", key |-> "E3", issuetype |-> "Epic",
                      parentKey |-> "E1", parentType |-> "Epic", epicLink |-> "E2",
                      sprints |-> <<"10">>, dod |-> FALSE, done |-> FALSE,
                      labels |-> <<Str(<<"s", "q", "u", "a", "d", "_", "a">>),
                                   Str(<<"s", "q", "u", "a", "d", "_", "b">>)>>]
      \* E9 is a stale key of E1: the tracker answers with the moved issue.
      [] k = "E9" -> [id |-> "100", key |-> "E1", issuetype |-> "Epic",
                      parentKey |-> NoKey, parentType |-> "", epicLink |-> "",
                      sprints |-> <<"10">>, dod |-> FALSE, done |-> FALSE,
                      labels |-> <<Str(<<"s", "q", "u", "a", "d", "_", "a">>)>>]
      [] k = "T1" -> [id |-> "101", key |-> "T1", issuetype |-> "Task",
                      parentKey |-> "E1", parentType |-> "Epic", epicLink |-> "",
                      sprints |-> <<"10">>, dod |-> TRUE, done |-> TRUE,
                      labels |-> <<>>]
      [] k = "T2" -> [id |-> "102", key |-> "T2", issuetype |-> "Task",
                      parentKey |-> "E2", parentType |-> "Epic", epicLink |-> "",
                      sprints |-> <<"20">>, dod |-> FALSE, done |-> FALSE,
                      labels |-> <<Str(<<" ", "S", "q", "u", "a", "d", "_", "B", " ">>),
                                   Str(<<"s", "q", "u", "a", "d">>), Str(<<"S", "Q", "U", "A", "D", "_">>),
                                   NotStr, Str(<<" ", " ">>)>>]
      [] k = "T3" -> [id |-> "103", key |-> "T3", issuetype |-> "Sub-task",
                      parentKey |-> "T2", parentType |-> "Task", epicLink |-> " E2 ",
                      sprints |-> <<"10", "20">>, dod |-> TRUE, done |-> TRUE,
                      labels |-> <<Str(<<"E", "c", "h", "o", "_", "S", "q", "u", "a", "d">>)>>]
      [] k = "T4" -> [id |-> "104", key |-> "T4", issuetype |-> "Task",
                      parentKey |-> NoKey, parentType |-> "", epicLink |-> "E9",
                      sprints |-> <<"10">>, dod |-> FALSE, done |-> FALSE,
                      labels |-> <<>>]
      \* T6 and T7 are open DoD tasks of E1, with and without evidence.
      [] k = "T6" -> [id |-> "106", key |-> "T6", issuetype |-> "Task",
                      parentKey |-> "E1", parentType |-> "Epic", epicLink |-> "",
                      sprints |-> <<"10">>, dod |-> TRUE, done |-> FALSE,
                      labels |-> <<>>]
      [] k = "T7" -> [id |-> "107", key |-> "T7", issuetype |-> "Task",
                      parentKey |-> "E1", parentType |-> "EPIC", epicLink |-> "E2",
                      sprints |-> <<"10">>, dod |-> TRUE, done |-> FALSE,
                      labels |-> <<>>]
      [] OTHER    -> [id |-> "105", key |-> "T5", issuetype |-> "Story",
                      parentKey |-> "T2", parentType |-> "Task", epicLink |-> "  ",
                      sprints |-> <<"20">>, dod |-> FALSE, done |-> FALSE,
                      labels |-> <<Str(<<"s", "q", "u", "a", "d", "_", "b">>)>>]

\* The sprints of the tracker, and the name and state each has at first.
SprintIds == {"10", "20"}

FirstBoard == [s \in SprintIds |-> [name |-> "Sprint", state |-> "active"]]

\* The summaries the tracker holds: a DoD task's begins with "DoD - ".
Summary(k) ==
    CASE k = "T1" -> <<"D", "o", "D", " ", "-", " ", "Q", "A">>
      [] k = "T2" -> <<"D", "o", "d", " ", "-", " ", "Q", "A">>
      [] k = "T3" -> <<"D", "o", "D", " ", "-", " ", " ", "Q", "A", ":", " ", "S", "u", "b", " ">>
      [] k = "T6" -> <<"D", "o", "D", " ", "-", " ", "Q", "A">>
      [] k = "T7" -> <<"D", "o", "D", " ", "-", " ", "!">>
      [] OTHER    -> <<"B", "e", "d">>

\* The remote links the tracker holds for an issue at first: the url of each
\* link's object, a string or no string at all.
FirstLinks(k) ==
    CASE k = "T1" -> <<NotStr, Str(<<" ">>), Str(<<" ", "u", " ">>), Str(<<"v">>)>>
      [] k = "T3" -> <<Str(<<" ", " ">>), NotStr>>
      [] k = "T6" -> <<Str(<<"w">>)>>
      [] OTHER    -> <<>>

\* The batches search_active_sprint_issues may answer with.
Batches ==
    { <<>>,
      <<"E1", "T1">>,
      <<"E1", "T1", "T2", "T5">>,
      <<"T3">>,
      <<"E3">>,
      <<"E1", "T1", "T1">>,
      <<"E1", "T4">>,
      <<"E1", "T6", "T7">> }

VARIABLES
    batch,      \* the keys the tracker's search answers with
    updated,    \* the tracker: key -> version token
    board,      \* the tracker: sprint id -> name and state of the sprint
    remoteLinks, \* the tracker: key -> the remote links of the issue
    now,        \* the clock timezone.now() reads
    sprintRows, \* committed SprintSnapshot rows
    epicRows,   \* committed EpicSnapshot rows, each with its team links
    taskRows,   \* committed DoDTaskSnapshot rows
    teamRows,   \* committed Team rows (their keys)
    seq,        \* the tables' id sequences
    sync,       \* per process: the locals of its sync_active_sprint call
    runs,       \* sync invocations started so far
    last,       \* the last invocation that ended: its outcome and the tokens it saw
    syncRuns,   \* the SyncRun table, by id
    nudgeLogs,  \* the NudgeLog table
    outbox,     \* the nudge mails sent so far
    nudge,      \* the answer to the last nudge request
    metrics,    \* the answer to the last metrics request
    req         \* per process: the locals of its nudge request

vars == <<batch, updated, board, remoteLinks, now, sprintRows, epicRows, taskRows,
          teamRows, seq, sync, runs, last, syncRuns, nudgeLogs, outbox, nudge,
          metrics, req>>

nudgeVars == <<nudgeLogs, outbox, nudge>>

\* What the endpoints of compliance/views.py write or answer.
apiVars == <<nudgeLogs, outbox, nudge, metrics, req>>

dbVars == <<sprintRows, epicRows, taskRows, teamRows>>
trackerVars == <<batch, updated, board, remoteLinks>>

SprintName(sprint_id) == board[sprint_id].name

SprintState(sprint_id) == board[sprint_id].state

RemoteLinks(k) == remoteLinks[k]

Range(s) == {s[n] : n \in DOMAIN s}

\* The orders in which a for-loop may walk a set.
Orders(S) == {o \in [1..Cardinality(S) -> S] : Range(o) = S}

SQUAD_PREFIX == <<"s", "q", "u", "a", "d", "_">>

\* The characters of the labels, in code-point order.
CodePoints == <<" ", "A", "B", "D", "E", "Q", "S", "U", "_",
                "a", "b", "c", "d", "e", "h", "o", "q", "s", "u">>

Ord(c) == CHOOSE n \in DOMAIN CodePoints : CodePoints[n] = c

LowerChar(c) ==
    CASE c = "A" -> "a" [] c = "B" -> "b" [] c = "D" -> "d" [] c = "E" -> "e"
      [] c = "Q" -> "q" [] c = "S" -> "s" [] c = "U" -> "u" [] OTHER -> c

\* str.lower(), str.strip(), str.startswith() and the order of str.
StrLower(s) == [n \in DOMAIN s |-> LowerChar(s[n])]

RECURSIVE LStrip(_)
LStrip(s) == IF s # <<>> /\ Head(s) = " " THEN LStrip(Tail(s)) ELSE s

RECURSIVE RStrip(_)
RStrip(s) ==
    IF s # <<>> /\ s[Len(s)] = " " THEN RStrip(SubSeq(s, 1, Len(s) - 1)) ELSE s

Strip(s) == RStrip(LStrip(s))

StartsWith(s, prefix) ==
    Len(s) >= Len(prefix) /\ SubSeq(s, 1, Len(prefix)) = prefix

StrLess(a, b) ==
    \/ Len(a) < Len(b) /\ SubSeq(b, 1, Len(a)) = a
    \/ \E n \in 1..Len(a) :
          /\ n <= Len(b)
          /\ SubSeq(a, 1, n - 1) = SubSeq(b, 1, n - 1)
          /\ Ord(a[n]) < Ord(b[n])

\* sorted() of a set of strings.
Sorted(S) ==
    CHOOSE o \in Orders(S) : \A n \in 1..(Len(o) - 1) : StrLess(o[n], o[n + 1])

\* str.lower() on the issue-type names the tracker uses.
Lower(s) ==
    CASE s = "Epic" -> "epic"
      [] s = "EPIC" -> "epic"
      [] s = "Task" -> "task"
      [] s = "Story" -> "story"
      [] s = "Sub-task" -> "sub-task"
      [] s = "Active" -> "active"
      [] OTHER -> s

\* str.strip() on the values the tracker holds in the epic-link field.
StripKey(s) ==
    CASE s = " E2 " -> "E2"
      [] s = "  " -> ""
      [] OTHER -> s

\* The tracker's issue behind a key (a stale key names the moved issue).
TrackerKey(k) == IssueFields(k).key

\* An issue object as the adapter hands it out: its fields and its "updated" stamp.
IssueObject(k) ==
    ("updated" :> updated[TrackerKey(k)]) @@ ("summary" :> Summary(k)) @@ IssueFields(k)

search_active_sprint_issues == [n \in DOMAIN batch |-> IssueObject(batch[n])]

get_issue(k) == IssueObject(k)

(***************************************************************************)
(* The resolver: pure functions of service.py over issue objects.          *)
(***************************************************************************)
\* A resolver that asks the epic-link field before the parent.
extract_epic_key_link_first(issue) ==
    IF Lower(issue.issuetype) = "epic" THEN issue.key
    ELSE IF StripKey(issue.epicLink) # "" THEN StripKey(issue.epicLink)
    ELSE IF issue.parentKey # NoKey /\ Lower(issue.parentType) = "epic"
         THEN issue.parentKey
    ELSE NoKey

extract_epic_key(issue) ==
    IF Lower(issue.issuetype) = "epic" THEN issue.key
    ELSE IF issue.parentKey # NoKey /\ Lower(issue.parentType) = "epic"
         THEN issue.parentKey
    ELSE IF StripKey(issue.epicLink) # "" THEN StripKey(issue.epicLink)
    ELSE NoKey

DOD_PREFIX == <<"D", "o", "D", " ", "-", " ">>

is_dod_task(issue) == StartsWith(issue.summary, DOD_PREFIX)

\* The characters [a-z0-9] of the summaries.
Alnum == {"a", "b", "d", "e", "g", "l", "n", "q", "r", "s", "u"}

\* CATEGORY_NON_ALNUM_RE.sub("_", s): every run of other characters becomes one "_".
RECURSIVE NonAlnumSub(_, _)
NonAlnumSub(s, in_run) ==
    IF s = <<>> THEN <<>>
    ELSE IF Head(s) \in Alnum THEN <<Head(s)>> \o NonAlnumSub(Tail(s), FALSE)
    ELSE (IF in_run THEN <<>> ELSE <<"_">>) \o NonAlnumSub(Tail(s), TRUE)

\* str.strip("_")
RECURSIVE StripUnderscores(_)
StripUnderscores(s) ==
    IF s # <<>> /\ Head(s) = "_" THEN StripUnderscores(Tail(s))
    ELSE IF s # <<>> /\ s[Len(s)] = "_" THEN StripUnderscores(SubSeq(s, 1, Len(s) - 1))
    ELSE s

extract_dod_category(summary) ==
    LET raw == StrLower(Strip(SubSeq(summary, Len(DOD_PREFIX) + 1, Len(summary))))
        normalized == StripUnderscores(NonAlnumSub(raw, FALSE))
    IN  IF normalized = <<>> THEN <<"g", "e", "n", "e", "r", "a", "l">> ELSE normalized

is_done(issue) == issue.done

issue_sprints(issue) == issue.sprints

\* xs appended to acc, skipping what acc already holds.
RECURSIVE AddNew(_, _)
AddNew(acc, xs) ==
    IF xs = <<>> THEN acc
    ELSE AddNew(IF Head(xs) \in Range(acc) THEN acc ELSE Append(acc, Head(xs)),
                Tail(xs))

RECURSIVE ExtractSprintsFrom(_, _)
ExtractSprintsFrom(acc, issues) ==
    IF issues = <<>> THEN acc
    ELSE ExtractSprintsFrom(AddNew(acc, issue_sprints(Head(issues))), Tail(issues))

extract_sprints(issues) == ExtractSprintsFrom(<<>>, issues)

issues_in_sprint(issues, sprint_id) ==
    SelectSeq(issues, LAMBDA issue : sprint_id \in Range(issue_sprints(issue)))

\* The epic keys the issues resolve to, in first-seen order.
RECURSIVE EpicKeysFrom(_, _)
EpicKeysFrom(acc, issues) ==
    IF issues = <<>> THEN acc
    ELSE LET k == extract_epic_key(Head(issues))
         IN  EpicKeysFrom(IF k = NoKey \/ k \in Range(acc) THEN acc
                          ELSE Append(acc, k),
                          Tail(issues))

EpicKeys(issues) == EpicKeysFrom(<<>>, issues)

\* The epic keys sync_active_sprint fetches one by one: those not in by_key.
MissingEpics(in_sprint) ==
    SelectSeq(EpicKeys(in_sprint),
              LAMBDA k : k \notin {in_sprint[n].key : n \in DOMAIN in_sprint})

\* by_key after the fetches: the order of its keys, and the dict itself.
ByKeyOrder(in_sprint) ==
    AddNew(<<>>, [n \in DOMAIN in_sprint |-> in_sprint[n].key])
        \o MissingEpics(in_sprint)

LastAt(in_sprint, k) ==
    in_sprint[CHOOSE n \in DOMAIN in_sprint :
                /\ in_sprint[n].key = k
                /\ \A m \in DOMAIN in_sprint : in_sprint[m].key = k => m <= n]

BuildByKey(in_sprint) ==
    [k \in Range(ByKeyOrder(in_sprint)) |->
        IF k \in {in_sprint[n].key : n \in DOMAIN in_sprint}
        THEN LastAt(in_sprint, k)
        ELSE get_issue(k)]

\* A token that does not read the "updated" stamp.
issue_version_token_blind(issue) == 0

issue_version_token(issue) == issue.updated

\* The fingerprint over by_key.values(): a later value of one key replaces an earlier.
build_issue_versions(order, by_key) ==
    [k \in {by_key[order[n]].key : n \in DOMAIN order} |->
        LET n == CHOOSE n \in DOMAIN order :
                    /\ by_key[order[n]].key = k
                    /\ \A m \in DOMAIN order : by_key[order[m]].key = k => m <= n
        IN  issue_version_token(by_key[order[n]])]

epic_map(in_sprint) ==
    LET order == EpicKeys(in_sprint)
    IN  [n \in DOMAIN order |->
            [epic_key |-> order[n],
             linked   |-> SelectSeq(in_sprint,
                                    LAMBDA issue : extract_epic_key(issue) = order[n])]]

\* An extraction that also takes the suffix form <name>_squad for a team.
extract_team_metadata_suffix(issues) ==
    LET labels == UNION {Range(issues[n].labels) : n \in DOMAIN issues}
        raws == {Strip(label.chars) : label \in {x \in labels : x.isstr}} \ {<<>>}
        suffix == <<"_", "s", "q", "u", "a", "d">>
        ends(raw) == /\ Len(raw) > Len(suffix)
                     /\ SubSeq(StrLower(raw), Len(raw) - Len(suffix) + 1, Len(raw)) = suffix
        teams == {SQUAD_PREFIX \o SubSeq(StrLower(raw), 1, Len(raw) - Len(suffix)) :
                    raw \in {r \in raws : ends(r)}}
    IN  [teams |-> teams, missing |-> teams = {}, warnings |-> <<>>]

\* An extraction that reads no label.
extract_team_metadata_blind(issues) ==
    [teams |-> {}, missing |-> TRUE, warnings |-> <<>>]

extract_team_metadata(issues) ==
    LET labels == UNION {Range(issues[n].labels) : n \in DOMAIN issues}
        raws == {Strip(label.chars) : label \in {x \in labels : x.isstr}} \ {<<>>}
        team_name(raw) ==
            Strip(SubSeq(StrLower(raw), Len(SQUAD_PREFIX) + 1, Len(raw)))
        names(raw) == StartsWith(StrLower(raw), SQUAD_PREFIX) /\ team_name(raw) # <<>>
        teams == {SQUAD_PREFIX \o team_name(raw) : raw \in {r \in raws : names(r)}}
        warnings == {raw \in raws :
                        /\ ~names(raw)
                        /\ StartsWith(StrLower(raw), <<"s", "q", "u", "a", "d">>)}
    IN  [teams |-> teams, missing |-> teams = {}, warnings |-> Sorted(warnings)]

\* None, the value of a lookup that found nothing.
None == NotStr

\* The first link whose url is a string with more than blanks in it, stripped.
RECURSIVE FirstUrl(_)
FirstUrl(links) ==
    IF links = <<>> THEN None
    ELSE IF Head(links).isstr /\ Strip(Head(links).chars) # <<>>
         THEN Str(Strip(Head(links).chars))
    ELSE FirstUrl(Tail(links))

first_remote_link(issue_key) == FirstUrl(RemoteLinks(issue_key))

\* bool(x) of a string or None.
Bool(x) == x.isstr /\ x.chars # <<>>

\* ",".join(reasons)
RECURSIVE Join(_)
Join(reasons) ==
    IF reasons = <<>> THEN ""
    ELSE IF Len(reasons) = 1 THEN Head(reasons)
    ELSE Head(reasons) \o "," \o Join(Tail(reasons))

\* The reasons appended the other way round.
non_compliance_reason_reversed(is_done_, has_link) ==
    Join((IF ~has_link THEN <<"missing_evidence_link">> ELSE <<>>)
            \o (IF ~is_done_ THEN <<"task_not_done">> ELSE <<>>))

non_compliance_reason(is_done_, has_link) ==
    Join((IF ~is_done_ THEN <<"task_not_done">> ELSE <<>>)
            \o (IF ~has_link THEN <<"missing_evidence_link">> ELSE <<>>))

\* The index of the first DoD task of linked at or after t (0: none).
NextDod(linked, t) ==
    LET S == {n \in DOMAIN linked : n >= t /\ is_dod_task(linked[n])}
    IN  IF S = {} THEN 0 ELSE CHOOSE n \in S : \A m \in S : n <= m

(***************************************************************************)
(* The change-detection gate.                                              *)
(***************************************************************************)
SnapshotsOf(sprint_id) == {r \in sprintRows : r.jira_sprint_id = sprint_id}

\* order_by("sync_timestamp", "id").first(): the oldest row.
Oldest(rows) ==
    CHOOSE r \in rows :
        \A o \in rows :
            \/ r.sync_timestamp < o.sync_timestamp
            \/ o.sync_timestamp = r.sync_timestamp /\ r.id <= o.id

\* order_by("-sync_timestamp", "-id").first()
Newest(rows) ==
    CHOOSE r \in rows :
        \A o \in rows :
            \/ o.sync_timestamp < r.sync_timestamp
            \/ o.sync_timestamp = r.sync_timestamp /\ o.id <= r.id

\* A gate that never skips.
should_skip_never(sprint_id, issue_versions) == FALSE

\* A gate that skips when any generation of the sprint carries the fingerprint.
should_skip_any(sprint_id, issue_versions) ==
    \E r \in SnapshotsOf(sprint_id) : r.issue_versions = issue_versions

\* A gate that trusts the generations of a sync that returned only.
should_skip_sprint_snapshot_after_success(sprint_id, issue_versions) ==
    IF SnapshotsOf(sprint_id) = {} \/ last.outcome = "failed" THEN FALSE
    ELSE Newest(SnapshotsOf(sprint_id)).issue_versions = issue_versions

\* A gate that compares the state of the sprint as well.
should_skip_sprint_snapshot_state(sprint_id, issue_versions) ==
    IF SnapshotsOf(sprint_id) = {} THEN FALSE
    ELSE /\ Newest(SnapshotsOf(sprint_id)).issue_versions = issue_versions
         /\ Newest(SnapshotsOf(sprint_id)).sprint_state = SprintState(sprint_id)

should_skip_sprint_snapshot(sprint_id, issue_versions) ==
    IF SnapshotsOf(sprint_id) = {} THEN FALSE
    ELSE Newest(SnapshotsOf(sprint_id)).issue_versions = issue_versions

(***************************************************************************)
(* The locals of one sync_active_sprint call, and the rows its open        *)
(* transaction has written but not committed.                              *)
(***************************************************************************)
RealKeys == {TrackerKey(k) : k \in Keys}

NoResult == [kind |-> "none", sprint_snapshots |-> 0, epic_snapshots |-> 0,
             dod_task_snapshots |-> 0, error |-> ""]

EmptyTx == [sprints |-> {}, epics |-> {}, tasks |-> {}, teams |-> {}]

NoRows == [sprints |-> {}, epics |-> {}, tasks |-> {}]

NoCalls == [search |-> 0, get_issue |-> 0, remote_links |-> 0]

NeverRan == [outcome |-> "none", updated |-> [k \in RealKeys |-> 0], committed |-> {}]

IdleLocals ==
    [pc |-> "idle", issues |-> <<>>, sync_ts |-> 0, sprints |-> <<>>, i |-> 0,
     in_sprint |-> <<>>, by_key |-> <<>>, issue_versions |-> <<>>,
     groups |-> <<>>, e |-> 0, t |-> 0, sprint_snapshot |-> 0, epic_snapshot |-> 0,
     team_keys |-> <<>>, run |-> 0,
     created_sprints |-> 0, created_epics |-> 0, created_dod_tasks |-> 0,
     result_epics |-> 0, result_dod_tasks |-> 0,
     result |-> NoResult, tx |-> EmptyTx,
     \* what follows records the call for the properties; the code reads none of it
     mine |-> NoRows, seen |-> NeverRan.updated, before |-> NeverRan,
     db_before |-> EmptyTx, calls |-> NoCalls, exc |-> "", env |-> TRUE]

Running(p) == sync[p].pc \notin {"idle", "done", "failed"}

\* The locals with what belongs to the sprint in hand forgotten.
SprintDone(l) ==
    [l EXCEPT !.in_sprint = <<>>, !.by_key = <<>>, !.issue_versions = <<>>,
              !.groups = <<>>, !.e = 0, !.t = 0, !.sprint_snapshot = 0,
              !.team_keys = <<>>,
              !.epic_snapshot = 0, !.result_epics = 0, !.result_dod_tasks = 0,
              !.tx = EmptyTx]

\* An exception caught inside the loop: the call goes on with the next sprint.
RaisedAndSwallowed(l, err) == [SprintDone(l) EXCEPT !.pc = "sprint", !.i = @ + 1]

\* An exception leaves sync_active_sprint: no summary is returned.
Raised(l, err) ==
    [SprintDone(l) EXCEPT !.pc = "failed", !.issues = <<>>,
                          !.result = [NoResult EXCEPT !.kind = "error", !.error = err]]

\* A summary whose epic counter is fed from the task counter.
SyncSummaryMixed(l) ==
    [kind |-> "summary", sprint_snapshots |-> l.created_sprints,
     epic_snapshots |-> l.created_dod_tasks,
     dod_task_snapshots |-> l.created_dod_tasks, error |-> ""]

SyncSummary(l) ==
    [kind |-> "summary", sprint_snapshots |-> l.created_sprints,
     epic_snapshots |-> l.created_epics,
     dod_task_snapshots |-> l.created_dod_tasks, error |-> ""]

\* SyncRun: finished_at is null while the run goes on.
NoTime == -1

\* Lines 25-31 of execute_sync: SyncRun.objects.create.
NewSyncRun(id) ==
    [id |-> id, status |-> "RUNNING", started_at |-> now, finished_at |-> NoTime,
     sprint_snapshots |-> 0, epic_snapshots |-> 0, dod_task_snapshots |-> 0,
     error_message |-> ""]

\* A failure branch that saves nothing.
RecordFailureLost(table, id, err) == table

\* Lines 65-69 of execute_sync: the except branch saves status, finished_at
\* and error_message, and raises again.
RecordFailure(table, id, err) ==
    [table EXCEPT ![id] = [@ EXCEPT !.status = "FAILED", !.finished_at = now,
                                    !.error_message = err]]

\* Lines 38-53 of execute_sync: the summary is saved on the run.
RecordSuccess(table, id, summary) ==
    [table EXCEPT ![id] = [@ EXCEPT !.status = "SUCCESS",
                                    !.sprint_snapshots = summary.sprint_snapshots,
                                    !.epic_snapshots = summary.epic_snapshots,
                                    !.dod_task_snapshots = summary.dod_task_snapshots,
                                    !.finished_at = now, !.error_message = ""]]

\* A from_env that checks nothing.
from_env_unchecked(env) == "adapter"

\* JiraClientAdapter.from_env: the credentials are read before a client is built.
from_env(env) == IF env THEN "adapter" ELSE "JiraConfigurationError"

Returned(l) ==
    [SprintDone(l) EXCEPT !.pc = "done", !.issues = <<>>, !.result = SyncSummary(l)]

\* Writes that stay when the transaction aborts (no transaction.atomic()).
AbortedWritesKept(tx) == tx

\* What an aborted transaction leaves in the tables: transaction.atomic() rolls back.
AbortedWrites(tx) == EmptyTx

\* SprintSnapshot.objects.create: an INSERT.  (UpsertSprints: update_or_create
\* on jira_sprint_id, which replaces the generation of the sprint.)
UpsertSprints(table, rows) ==
    {r \in table : \A n \in rows : n.jira_sprint_id # r.jira_sprint_id} \cup rows

InsertSprints(table, rows) == table \cup rows

\* A table without the unique constraint.
NoConstraint(rows, row) == FALSE

\* The unique constraints of EpicSnapshot and DoDTaskSnapshot.
ViolatesEpicUnique(rows, row) ==
    \E r \in rows : /\ r.sprint_snapshot = row.sprint_snapshot
                    /\ r.jira_issue_id = row.jira_issue_id

ViolatesTaskUnique(rows, row) ==
    \E r \in rows : /\ r.epic_snapshot = row.epic_snapshot
                    /\ r.jira_issue_id = row.jira_issue_id

\* Team.key is unique: the INSERT of a key that another open transaction has
\* inserted waits for that transaction to end.
TeamKeyHeldBy(q, k) == k \notin teamRows /\ k \in sync[q].tx.teams

\* Two transactions each wait for a key the other has inserted: the database
\* ends one of them with an error.
TeamDeadlock(p, k) ==
    \E q \in Procs \ {p} :
        /\ TeamKeyHeldBy(q, k)
        /\ sync[q].pc = "team"
        /\ TeamKeyHeldBy(p, Head(sync[q].team_keys))

\* The exception leaves the with-block: the transaction aborts, the call fails.
Fail(p, l, err) ==
    /\ sync' = [sync EXCEPT ![p] = [Raised(l, err) EXCEPT !.exc = err]]
    /\ last' = [outcome |-> "failed", updated |-> l.seen, committed |-> l.mine.sprints]
    /\ syncRuns' = RecordFailure(syncRuns, l.run, err)
    /\ sprintRows' = InsertSprints(sprintRows, AbortedWrites(l.tx).sprints)
    /\ epicRows' = epicRows \cup AbortedWrites(l.tx).epics
    /\ taskRows' = taskRows \cup AbortedWrites(l.tx).tasks
    /\ teamRows' = teamRows \cup AbortedWrites(l.tx).teams

(***************************************************************************)
(* The nudge endpoint: the scope of a request, the evaluation of an epic,  *)
(* the cooldown.  The clock counts ticks, TicksPerSecond to the second.    *)
(***************************************************************************)
TicksPerSecond == 2

\* settings.NUDGE_COOLDOWN_HOURS, here a window of two seconds, in ticks.
NUDGE_COOLDOWN == 2 * TicksPerSecond

\* No sprint_snapshot_id in the query, no category filter, no NudgeLog.
NoId == 0
NoFilter == <<>>
NoLog == [id |-> 0, epic_snapshot |-> 0, sent_at |-> 0, recipient_emails |-> {}]

\* No metrics request answered yet, and a process with no nudge request.
NoMetrics == [asked |-> FALSE]

IdleRequest == [pc |-> "idle", epic |-> 0, recipients |-> {}]

\* The response to the last request: none yet.
NoNudge == [status |-> 0, reason |-> "none"]

\* The rows of a set of SprintSnapshots, the newest first.
RECURSIVE NewestFirst(_)
NewestFirst(rows) ==
    IF rows = {} THEN <<>>
    ELSE <<Newest(rows)>> \o NewestFirst(rows \ {Newest(rows)})

resolve_sprint_snapshots(sprint_snapshot_id) ==
    LET active == {r \in sprintRows : Lower(r.sprint_state) = "active"}
        latest_per_sprint ==
            {r \in active : r = Newest({o \in active : o.jira_sprint_id = r.jira_sprint_id})}
    IN  IF sprint_snapshot_id # NoId
        THEN NewestFirst({r \in sprintRows : r.id = sprint_snapshot_id})
        ELSE IF active # {} THEN NewestFirst(latest_per_sprint)
        ELSE IF sprintRows = {} THEN <<>>
        ELSE NewestFirst({r \in sprintRows :
                            r.sync_timestamp = Newest(sprintRows).sync_timestamp})

\* Lines 850-860 of NudgeEpicView.post: the epic of that key in the scope, of
\* the newest generation first (0: none).
find_epic(sprint_snapshots, jira_key) ==
    LET found == {e \in epicRows : /\ e.jira_key = jira_key
                                   /\ \E n \in DOMAIN sprint_snapshots :
                                         sprint_snapshots[n].id = e.sprint_snapshot}
        sprint(e) == CHOOSE r \in sprintRows : r.id = e.sprint_snapshot
        first(e) == \A o \in found \ {e} :
                       \/ sprint(o).sync_timestamp < sprint(e).sync_timestamp
                       \/ /\ sprint(o).sync_timestamp = sprint(e).sync_timestamp
                          /\ \/ o.sprint_snapshot < e.sprint_snapshot
                             \/ o.sprint_snapshot = e.sprint_snapshot /\ o.id < e.id
    IN  IF found = {} THEN 0 ELSE (CHOOSE e \in found : first(e)).id

task_is_compliant(task) == task.is_done /\ task.has_evidence_link

\* An evaluation that lists the first failing task only.
evaluate_epic_first_failure(epic, category_filter) ==
    LET all_tasks == {t \in taskRows : t.epic_snapshot = epic.id}
        scoped_tasks == IF category_filter = NoFilter THEN all_tasks
                        ELSE {t \in all_tasks : t.category = category_filter}
        failing == {t \in scoped_tasks : ~task_is_compliant(t)}
        failing_tasks == {t \in failing : \A u \in failing : t.id <= u.id}
    IN  IF category_filter # NoFilter /\ scoped_tasks = {}
        THEN [none |-> TRUE, is_compliant |-> FALSE, reasons |-> <<>>,
              failing_tasks |-> {}, scoped_tasks |-> {}]
        ELSE IF scoped_tasks = {}
        THEN [none |-> FALSE, is_compliant |-> FALSE, reasons |-> <<"no_dod_tasks">>,
              failing_tasks |-> {}, scoped_tasks |-> {}]
        ELSE [none |-> FALSE, is_compliant |-> failing_tasks = {},
              reasons |-> IF failing_tasks # {} THEN <<"incomplete_dod_tasks">> ELSE <<>>,
              failing_tasks |-> failing_tasks, scoped_tasks |-> scoped_tasks]

\* An evaluation that gives an epic without scoped tasks a result under a filter too.
evaluate_epic_counting_empty(epic, category_filter) ==
    LET all_tasks == {t \in taskRows : t.epic_snapshot = epic.id}
        scoped_tasks == IF category_filter = NoFilter THEN all_tasks
                        ELSE {t \in all_tasks : t.category = category_filter}
        failing_tasks == {t \in scoped_tasks : ~task_is_compliant(t)}
    IN  IF scoped_tasks = {}
        THEN [none |-> FALSE, is_compliant |-> FALSE, reasons |-> <<"no_dod_tasks">>,
              failing_tasks |-> {}, scoped_tasks |-> {}]
        ELSE [none |-> FALSE, is_compliant |-> failing_tasks = {},
              reasons |-> IF failing_tasks # {} THEN <<"incomplete_dod_tasks">> ELSE <<>>,
              failing_tasks |-> failing_tasks, scoped_tasks |-> scoped_tasks]

\* _evaluate_epic: none (no result), or is_compliant, reasons and failing tasks.
evaluate_epic(epic, category_filter) ==
    LET all_tasks == {t \in taskRows : t.epic_snapshot = epic.id}
        scoped_tasks == IF category_filter = NoFilter THEN all_tasks
                        ELSE {t \in all_tasks : t.category = category_filter}
        failing_tasks == {t \in scoped_tasks : ~task_is_compliant(t)}
    IN  IF category_filter # NoFilter /\ scoped_tasks = {}
        THEN [none |-> TRUE, is_compliant |-> FALSE, reasons |-> <<>>,
              failing_tasks |-> {}, scoped_tasks |-> {}]
        ELSE IF scoped_tasks = {}
        THEN [none |-> FALSE, is_compliant |-> FALSE, reasons |-> <<"no_dod_tasks">>,
              failing_tasks |-> {}, scoped_tasks |-> {}]
        ELSE [none |-> FALSE, is_compliant |-> failing_tasks = {},
              reasons |-> IF failing_tasks # {} THEN <<"incomplete_dod_tasks">> ELSE <<>>,
              failing_tasks |-> failing_tasks, scoped_tasks |-> scoped_tasks]

\* max(logs, key=sent_at) over the NudgeLogs of the EpicSnapshot.
latest_nudge_log(epic) ==
    LET logs == {g \in nudgeLogs : g.epic_snapshot = epic.id}
    IN  IF logs = {} THEN NoLog
        ELSE CHOOSE g \in logs : \A o \in logs : o.sent_at <= g.sent_at

\* int(timedelta.total_seconds()): the fraction of a second is cut off.
IntSeconds(ticks) ==
    IF ticks >= 0 THEN ticks \div TicksPerSecond
    ELSE 0 - ((0 - ticks) \div TicksPerSecond)

\* _nudge_state at the instant `at` (timezone.now()).
nudge_state(epic, at) ==
    LET latest_nudge == latest_nudge_log(epic)
        expires_at == latest_nudge.sent_at + NUDGE_COOLDOWN
        remaining == IntSeconds(expires_at - at)
    IN  IF latest_nudge = NoLog
        THEN [cooldown_active |-> FALSE, seconds_remaining |-> 0, last_sent_at |-> NoTime]
        ELSE [cooldown_active |-> remaining > 0,
              seconds_remaining |-> IF remaining > 0 THEN remaining ELSE 0,
              last_sent_at |-> latest_nudge.sent_at]

\* _resolve_recipients: the recipients of the request, else those configured
\* for the teams or as the default.
resolve_recipients(explicit_recipients, configured_recipients) ==
    IF explicit_recipients # {} THEN explicit_recipients ELSE configured_recipients

(***************************************************************************)
(* sync_active_sprint, step by step.                                       *)
(***************************************************************************)
Init ==
    /\ batch \in Batches
    /\ updated = [k \in RealKeys |-> 0]
    /\ now = 0
    /\ sprintRows = {}
    /\ epicRows = {}
    /\ taskRows = {}
    /\ teamRows = {}
    /\ seq = [sprint |-> 0, epic |-> 0, task |-> 0]
    /\ sync = [p \in Procs |-> IdleLocals]
    /\ runs = 0
    /\ last = NeverRan
    /\ syncRuns = <<>>
    /\ nudgeLogs = {}
    /\ outbox = 0
    /\ nudge = NoNudge
    /\ board = FirstBoard
    /\ remoteLinks = [k \in RealKeys |-> FirstLinks(k)]
    /\ metrics = NoMetrics
    /\ req = [p \in Procs |-> IdleRequest]

\* Lines 19-31 of execute_sync: the run is recorded as RUNNING.  The
\* environment of the call holds the adapter's credentials or lacks them.
Execute(p) ==
    LET id == Len(syncRuns) + 1
    IN  /\ ~Running(p)
        /\ runs < MaxRuns
        /\ runs' = runs + 1
        /\ syncRuns' = Append(syncRuns, NewSyncRun(id))
        /\ \E env \in BOOLEAN :
              sync' = [sync EXCEPT ![p] =
                [IdleLocals EXCEPT !.pc = "from_env", !.run = id, !.env = env,
                                   !.seen = updated, !.before = last,
                                   !.db_before = [sprints |-> sprintRows,
                                                  epics |-> epicRows,
                                                  tasks |-> taskRows,
                                                  teams |-> teamRows]]]
        /\ UNCHANGED <<trackerVars, now, dbVars, seq, last, apiVars>>

\* Lines 34-35 of execute_sync: the adapter is built from the environment.
FromEnv(p) ==
    LET l == sync[p]
    IN  /\ l.pc = "from_env"
        /\ \/ /\ from_env(l.env) = "JiraConfigurationError"
              /\ Fail(p, l, "JiraConfigurationError")
           \/ /\ from_env(l.env) = "adapter"
              /\ sync' = [sync EXCEPT ![p] = [l EXCEPT !.pc = "search"]]
              /\ UNCHANGED <<dbVars, last, syncRuns>>
        /\ UNCHANGED <<trackerVars, now, seq, runs, apiVars>>

\* Lines 32-41: the search, the empty-batch return, the sync instant, the sprints.
Search(p) ==
    LET l == [sync[p] EXCEPT !.calls.search = 1]
        issues == search_active_sprint_issues
    IN  /\ sync[p].pc = "search"
        /\ \/ /\ Fail(p, l, "JiraApiError")
              /\ now' = now
           \/ /\ issues = <<>>
              /\ sync' = [sync EXCEPT ![p] = Returned(l)]
              /\ last' = [outcome |-> "done", updated |-> l.seen, committed |-> l.mine.sprints]
              /\ syncRuns' = RecordSuccess(syncRuns, l.run, SyncSummary(l))
              /\ UNCHANGED <<dbVars, now>>
           \/ /\ issues # <<>>
              /\ \E d \in {0, 1} : now' = now + d
              /\ sync' = [sync EXCEPT ![p] =
                            [l EXCEPT !.pc = "sprint", !.issues = issues,
                                      !.sync_ts = now',
                                      !.sprints = extract_sprints(issues),
                                      !.i = 1]]
              /\ UNCHANGED <<dbVars, last, syncRuns>>
        /\ UNCHANGED <<trackerVars, seq, runs, apiVars>>

\* Lines 44-55: the sprint's issues, the fetch of the epics the batch lacks, the fingerprint.
PrepareSprint(p) ==
    LET l == sync[p]
        sprint_id == l.sprints[l.i]
        in_sprint == issues_in_sprint(l.issues, sprint_id)
        missing == MissingEpics(in_sprint)
        by_key == BuildByKey(in_sprint)
    IN  /\ l.pc = "sprint"
        /\ l.i <= Len(l.sprints)
        /\ \/ \E j \in DOMAIN missing :
                 Fail(p, [l EXCEPT !.calls.get_issue = @ + j], "JiraApiError")
           \/ /\ sync' = [sync EXCEPT ![p] =
                    IF in_sprint = <<>>
                    THEN [l EXCEPT !.i = @ + 1]
                    ELSE [l EXCEPT !.pc = "gate", !.in_sprint = in_sprint,
                                   !.by_key = by_key,
                                   !.issue_versions =
                                       build_issue_versions(ByKeyOrder(in_sprint), by_key),
                                   !.calls.get_issue = @ + Len(missing)]]
              /\ UNCHANGED <<dbVars, last, syncRuns>>
        /\ UNCHANGED <<trackerVars, now, seq, runs, apiVars>>

\* Lines 56-66 and 90-95: the gate; past it the transaction opens with the sprint row.
Gate(p) ==
    LET l == sync[p]
        sprint_id == l.sprints[l.i]
        id == seq.sprint + 1
        row == [id |-> id, jira_sprint_id |-> sprint_id,
                sprint_name |-> SprintName(sprint_id),
                sprint_state |-> SprintState(sprint_id),
                sync_timestamp |-> l.sync_ts, issue_versions |-> l.issue_versions]
        groups == epic_map(l.in_sprint)
    IN  /\ l.pc = "gate"
        /\ IF should_skip_sprint_snapshot(sprint_id, l.issue_versions)
           THEN /\ sync' = [sync EXCEPT ![p] = [SprintDone(l) EXCEPT !.i = @ + 1,
                                                                   !.pc = "sprint"]]
                /\ UNCHANGED seq
           ELSE /\ sync' = [sync EXCEPT ![p] =
                      [l EXCEPT !.pc = IF groups = <<>> THEN "commit" ELSE "epic",
                                !.sprint_snapshot = id, !.groups = groups, !.e = 1,
                                !.tx = [EmptyTx EXCEPT !.sprints = {row}]]]
                /\ seq' = [seq EXCEPT !.sprint = id]
        /\ UNCHANGED <<trackerVars, now, dbVars, runs, last, syncRuns, apiVars>>

\* Where the loops of _sync_sprint_epics go after the task at t of the epic at e.
Advance(l, t) ==
    LET nt == NextDod(l.groups[l.e].linked, t)
    IN  IF nt # 0 THEN [l EXCEPT !.pc = "task", !.t = nt]
        ELSE IF l.e < Len(l.groups) THEN [l EXCEPT !.pc = "epic", !.e = @ + 1, !.t = 0]
        ELSE [l EXCEPT !.pc = "commit", !.t = 0]

\* Lines 100-125: one EpicSnapshot, its teams got or created and linked.
CreateEpic(p) ==
    LET l == sync[p]
        g == l.groups[l.e]
        epic_issue == l.by_key[g.epic_key]
        meta == extract_team_metadata(<<epic_issue>> \o g.linked)
        id == seq.epic + 1
        row == [id |-> id, sprint_snapshot |-> l.sprint_snapshot,
                jira_issue_id |-> epic_issue.id, jira_key |-> epic_issue.key,
                is_done |-> is_done(epic_issue),
                missing_squad_labels |-> meta.missing,
                squad_label_warnings |-> meta.warnings, teams |-> meta.teams]
    IN  /\ l.pc = "epic"
        /\ seq' = [seq EXCEPT !.epic = id]
        /\ \/ /\ ViolatesEpicUnique(epicRows \cup l.tx.epics, row)
              /\ Fail(p, l, "IntegrityError")
           \/ /\ ~ViolatesEpicUnique(epicRows \cup l.tx.epics, row)
              /\ \E order \in Orders(meta.teams) :
                    LET m == [l EXCEPT !.epic_snapshot = id,
                                       !.result_epics = @ + 1,
                                       !.tx.epics = @ \cup {row}]
                    IN  sync' = [sync EXCEPT ![p] =
                            IF order = <<>> THEN Advance(m, 1)
                            ELSE [m EXCEPT !.pc = "team", !.team_keys = order]]
              /\ UNCHANGED <<dbVars, last, syncRuns>>
        /\ UNCHANGED <<trackerVars, now, runs, apiVars>>

\* Lines 123-125: Team.objects.get_or_create for the next key of team_keys, and
\* the link.  get_or_create reads the row; without one it inserts, and an
\* IntegrityError of the insert makes it read again.
GetOrCreateTeam(p) ==
    LET l == sync[p]
        k == Head(l.team_keys)
        rest == Tail(l.team_keys)
        go(m) == IF rest = <<>> THEN Advance([m EXCEPT !.team_keys = <<>>], 1)
                 ELSE [m EXCEPT !.team_keys = rest]
    IN  /\ l.pc = "team"
        /\ \/ /\ k \in teamRows \cup l.tx.teams
              /\ sync' = [sync EXCEPT ![p] = go(l)]
              /\ UNCHANGED <<dbVars, last, syncRuns>>
           \/ /\ k \notin teamRows \cup l.tx.teams
              /\ \A q \in Procs \ {p} : ~TeamKeyHeldBy(q, k)
              /\ sync' = [sync EXCEPT ![p] = go([l EXCEPT !.tx.teams = @ \cup {k}])]
              /\ UNCHANGED <<dbVars, last, syncRuns>>
           \/ /\ TeamDeadlock(p, k)
              /\ Fail(p, l, "OperationalError")
        /\ UNCHANGED <<trackerVars, now, seq, runs, apiVars>>

\* Lines 127-149: the remote-link lookup of one DoD task and its DoDTaskSnapshot.
CreateTask(p) ==
    LET l == [sync[p] EXCEPT !.calls.remote_links = @ + 1]
        issue == l.groups[l.e].linked[l.t]
        link_url == first_remote_link(issue.key)
        has_link == Bool(link_url)
        id == seq.task + 1
        row == [id |-> id, epic_snapshot |-> l.epic_snapshot,
                jira_issue_id |-> issue.id, jira_key |-> issue.key,
                category |-> extract_dod_category(issue.summary),
                is_done |-> is_done(issue), has_evidence_link |-> has_link,
                evidence_link |-> IF Bool(link_url) THEN link_url.chars ELSE <<>>,
                non_compliance_reason |-> non_compliance_reason(is_done(issue), has_link)]
    IN  /\ l.pc = "task"
        /\ \/ /\ Fail(p, l, "JiraApiError")
              /\ UNCHANGED seq
           \/ /\ ViolatesTaskUnique(taskRows \cup l.tx.tasks, row)
              /\ Fail(p, l, "IntegrityError")
              /\ seq' = [seq EXCEPT !.task = id]
           \/ /\ ~ViolatesTaskUnique(taskRows \cup l.tx.tasks, row)
              /\ sync' = [sync EXCEPT ![p] =
                    Advance([l EXCEPT !.result_dod_tasks = @ + 1,
                                      !.tx.tasks = @ \cup {row}],
                            l.t + 1)]
              /\ seq' = [seq EXCEPT !.task = id]
              /\ UNCHANGED <<dbVars, last, syncRuns>>
        /\ UNCHANGED <<trackerVars, now, runs, apiVars>>

\* Lines 74-76 and the end of the with-block: the counters, then the commit.
Commit(p) ==
    LET l == sync[p]
        ids(rows) == {r.id : r \in rows}
    IN  /\ l.pc = "commit"
        /\ sprintRows' = InsertSprints(sprintRows, l.tx.sprints)
        /\ epicRows' = epicRows \cup l.tx.epics
        /\ taskRows' = taskRows \cup l.tx.tasks
        /\ teamRows' = teamRows \cup l.tx.teams
        /\ sync' = [sync EXCEPT ![p] =
              [SprintDone(l) EXCEPT
                  !.pc = "sprint", !.i = @ + 1,
                  !.created_sprints = @ + 1,
                  !.created_epics = @ + l.result_epics,
                  !.created_dod_tasks = @ + l.result_dod_tasks,
                  !.mine = [sprints |-> @.sprints \cup ids(l.tx.sprints),
                            epics |-> @.epics \cup ids(l.tx.epics),
                            tasks |-> @.tasks \cup ids(l.tx.tasks)]]]
        /\ UNCHANGED <<trackerVars, now, seq, runs, last, syncRuns, apiVars>>

\* Lines 78-82: the summary.
Return(p) ==
    LET l == sync[p]
    IN  /\ l.pc = "sprint"
        /\ l.i > Len(l.sprints)
        /\ sync' = [sync EXCEPT ![p] = Returned(l)]
        /\ last' = [outcome |-> "done", updated |-> l.seen, committed |-> l.mine.sprints]
        /\ syncRuns' = RecordSuccess(syncRuns, l.run, SyncSummary(l))
        /\ UNCHANGED <<trackerVars, now, dbVars, seq, runs, apiVars>>

\* The keys whose stamp the fingerprints of this batch can hold.
Relevant ==
    LET objs == search_active_sprint_issues
    IN  {TrackerKey(k) : k \in Range(batch) \cup Range(EpicKeys(objs))}

\* Between two syncs the tracker stamps an issue anew.
Touch(k) ==
    /\ \A p \in Procs : ~Running(p)
    /\ 0 < runs
    /\ runs < MaxRuns
    /\ k \in Relevant
    /\ \E v \in Tokens \ {updated[k]} : updated' = [updated EXCEPT ![k] = v]
    /\ UNCHANGED <<batch, board, remoteLinks, now, dbVars, seq, sync, runs, last,
                   syncRuns, apiVars>>

SyncStep(p) ==
    \/ Execute(p)
    \/ FromEnv(p)
    \/ Search(p)
    \/ PrepareSprint(p)
    \/ Gate(p)
    \/ CreateEpic(p)
    \/ GetOrCreateTeam(p)
    \/ CreateTask(p)
    \/ Commit(p)
    \/ Return(p)

\* One caller at a time: runs follow one another, the tracker changes between them.
Next ==
    \/ SyncStep(1)
    \/ \E k \in Mutable : Touch(k)

Spec == Init /\ [][Next]_vars

\* Two callers at once (a scheduled and a manual run) over one tracker state,
\* each calling once.
NextConc ==
    \E p \in Procs :
        /\ sync[p].pc \notin {"done", "failed"}
        /\ SyncStep(p)

SpecConc == Init /\ [][NextConc]_vars

(***************************************************************************)
(* POST /api/epics/<jira_key>/nudge (NudgeEpicView.post), one request.     *)
(***************************************************************************)
\* The last instant of the clock a behaviour ticks to.
MaxTime == 4

\* Number of nudges a behaviour sends.
MaxNudges == 2

\* Number of sync invocations a behaviour with nudges holds.
MaxSyncs == 2

NudgeKeys == {"E1", "E2", "E9"}

Recipients == {"lead@example.com"}

Guards == {"ok", "read_access_denied", "not_allowed_for_user_scope"}

\* The sprint_snapshot_id values a request may name.
SnapshotIds == {1}

\* An outcome that sends to nobody.
post_outcome_unaddressed(guard, scoped, found, evaluation, state, recipients, send_ok) ==
    IF guard = "read_access_denied" THEN [status |-> 403, reason |-> guard]
    ELSE IF ~scoped THEN [status |-> 404, reason |-> "no_sprint_snapshot"]
    ELSE IF ~found THEN [status |-> 404, reason |-> "epic_not_found"]
    ELSE IF guard = "not_allowed_for_user_scope" THEN [status |-> 403, reason |-> guard]
    ELSE IF evaluation.none \/ evaluation.is_compliant
         THEN [status |-> 400, reason |-> "epic_is_compliant"]
    ELSE IF state.cooldown_active THEN [status |-> 429, reason |-> "cooldown_active"]
    ELSE IF ~send_ok THEN [status |-> 500, reason |-> "send_mail_raised"]
    ELSE [status |-> 200, reason |-> "sent"]

\* The early returns of post, in their order, and the outcome of send_mail.
post_outcome(guard, scoped, found, evaluation, state, recipients, send_ok) ==
    IF guard = "read_access_denied" THEN [status |-> 403, reason |-> guard]
    ELSE IF ~scoped THEN [status |-> 404, reason |-> "no_sprint_snapshot"]
    ELSE IF ~found THEN [status |-> 404, reason |-> "epic_not_found"]
    ELSE IF guard = "not_allowed_for_user_scope" THEN [status |-> 403, reason |-> guard]
    ELSE IF evaluation.none \/ evaluation.is_compliant
         THEN [status |-> 400, reason |-> "epic_is_compliant"]
    ELSE IF state.cooldown_active THEN [status |-> 429, reason |-> "cooldown_active"]
    ELSE IF recipients = {} THEN [status |-> 400, reason |-> "no_recipients"]
    ELSE IF ~send_ok THEN [status |-> 500, reason |-> "send_mail_raised"]
    ELSE [status |-> 200, reason |-> "sent"]

NudgePost ==
    /\ \A p \in Procs : ~Running(p)
    /\ Cardinality(nudgeLogs) < MaxNudges
    /\ \E jira_key \in NudgeKeys,
          sprint_snapshot_id \in {NoId} \cup SnapshotIds,
          guard \in Guards,
          explicit_recipients \in SUBSET Recipients,
          configured_recipients \in SUBSET Recipients,
          send_ok \in BOOLEAN :
        LET sprint_snapshots == resolve_sprint_snapshots(sprint_snapshot_id)
            id == find_epic(sprint_snapshots, jira_key)
            found == sprint_snapshots # <<>> /\ id # 0
            epic == CHOOSE e \in epicRows : e.id = id
            evaluation == evaluate_epic(epic, NoFilter)
            state == nudge_state(epic, now)
            recipients == resolve_recipients(explicit_recipients, configured_recipients)
            outcome == post_outcome(guard, sprint_snapshots # <<>>, found, evaluation,
                                    state, recipients, send_ok)
        IN  /\ nudge' = outcome
            /\ outbox' = IF outcome.status = 200 THEN outbox + 1 ELSE outbox
            /\ nudgeLogs' =
                 IF outcome.status = 200
                 THEN nudgeLogs \cup {[id |-> Cardinality(nudgeLogs) + 1,
                                       epic_snapshot |-> id, sent_at |-> now,
                                       recipient_emails |-> recipients]}
                 ELSE nudgeLogs
    /\ UNCHANGED <<trackerVars, now, dbVars, seq, sync, runs, last, syncRuns,
                   metrics, req>>

\* Time passes between two requests.
Tick ==
    /\ \A p \in Procs : ~Running(p)
    /\ nudgeLogs # {}
    /\ now < MaxTime
    /\ now' = now + 1
    /\ UNCHANGED <<trackerVars, dbVars, seq, sync, runs, last, syncRuns, apiVars>>

InitNudge ==
    /\ Init
    /\ batch \in {<<"T3">>, <<"E1", "T1">>}

\* The tracker is configured and answers: the call goes on.  (A call that
\* fails leaves the store as it was, and the requests see the store only.)
Served(p) == sync'[p].env /\ sync'[p].pc # "failed" /\ runs' <= MaxSyncs

\* Syncs, changes of the tracker, nudge requests and the clock.
NextNudge ==
    \/ SyncStep(1) /\ Served(1)
    \/ \E k \in Mutable : Touch(k)
    \/ NudgePost
    \/ Tick

SpecNudge == InitNudge /\ [][NextNudge]_vars

(***************************************************************************)
(* NudgeEpicView.post, step by step: two requests may be served at once,   *)
(* each by its own worker; the handler takes no lock and opens no          *)
(* transaction, and NudgeLog has no unique constraint.                     *)
(***************************************************************************)
\* Lines 833-943: the checks, each a read of the store; the request that
\* passes them goes on to send.
NudgeCheck(p) ==
    /\ req[p].pc = "idle"
    /\ \A q \in Procs : ~Running(q)
    /\ Cardinality(nudgeLogs) < MaxNudges
    /\ \E jira_key \in NudgeKeys,
          sprint_snapshot_id \in {NoId} \cup SnapshotIds,
          guard \in Guards,
          explicit_recipients \in SUBSET Recipients,
          configured_recipients \in SUBSET Recipients :
        LET sprint_snapshots == resolve_sprint_snapshots(sprint_snapshot_id)
            id == find_epic(sprint_snapshots, jira_key)
            found == sprint_snapshots # <<>> /\ id # 0
            epic == CHOOSE e \in epicRows : e.id = id
            evaluation == evaluate_epic(epic, NoFilter)
            state == nudge_state(epic, now)
            recipients == resolve_recipients(explicit_recipients, configured_recipients)
            outcome == post_outcome(guard, sprint_snapshots # <<>>, found, evaluation,
                                    state, recipients, TRUE)
        IN  IF outcome.status = 200
            THEN /\ req' = [req EXCEPT ![p] = [pc |-> "send", epic |-> id,
                                               recipients |-> recipients]]
                 /\ UNCHANGED nudge
            ELSE /\ nudge' = outcome
                 /\ UNCHANGED req
    /\ UNCHANGED <<trackerVars, now, dbVars, seq, sync, runs, last, syncRuns,
                   nudgeLogs, outbox, metrics>>

\* Lines 961-967: send_mail, which may raise.
NudgeSend(p) ==
    /\ req[p].pc = "send"
    /\ \E send_ok \in BOOLEAN :
          IF send_ok
          THEN /\ outbox' = outbox + 1
               /\ req' = [req EXCEPT ![p].pc = "log"]
               /\ UNCHANGED nudge
          ELSE /\ nudge' = [status |-> 500, reason |-> "send_mail_raised"]
               /\ req' = [req EXCEPT ![p] = IdleRequest]
               /\ UNCHANGED outbox
    /\ UNCHANGED <<trackerVars, now, dbVars, seq, sync, runs, last, syncRuns,
                   nudgeLogs, metrics>>

\* Lines 969-977 and the response: NudgeLog.objects.create, then 200.
NudgeLogCreate(p) ==
    /\ req[p].pc = "log"
    /\ nudgeLogs' = nudgeLogs \cup {[id |-> Cardinality(nudgeLogs) + 1,
                                      epic_snapshot |-> req[p].epic, sent_at |-> now,
                                      recipient_emails |-> req[p].recipients]}
    /\ nudge' = [status |-> 200, reason |-> "sent"]
    /\ req' = [req EXCEPT ![p] = IdleRequest]
    /\ UNCHANGED <<trackerVars, now, dbVars, seq, sync, runs, last, syncRuns,
                   outbox, metrics>>

NextRace ==
    \/ SyncStep(1) /\ Served(1)
    \/ \E p \in Procs : NudgeCheck(p)
    \/ \E p \in Procs : NudgeSend(p)
    \/ \E p \in Procs : NudgeLogCreate(p)

SpecRace == InitNudge /\ [][NextRace]_vars

(***************************************************************************)
(* The tracker changes what the fingerprint does not hold: a sprint is     *)
(* closed and renamed, the remote links of a DoD task are replaced.        *)
(***************************************************************************)
ClosedSprint == [name |-> "Sprint (closed)", state |-> "closed"]

\* The remote links a DoD task has after the change.
NextLinks(k) == IF k = "T1" THEN <<>> ELSE <<Str(<<"v">>)>>

CloseSprint(sprint_id) ==
    /\ \A p \in Procs : ~Running(p)
    /\ 0 < runs
    /\ board[sprint_id] = FirstBoard[sprint_id]
    \* the search is "sprint in openSprints()": an issue of the batch keeps an open sprint
    /\ \A k \in Range(batch) :
          \E other \in Range(IssueFields(k).sprints) \ {sprint_id} :
              board[other].state = "active"
    /\ board' = [board EXCEPT ![sprint_id] = ClosedSprint]
    /\ UNCHANGED <<batch, updated, remoteLinks, now, dbVars, seq, sync, runs, last,
                   syncRuns, apiVars>>

Relink(k) ==
    /\ \A p \in Procs : ~Running(p)
    /\ 0 < runs
    /\ k \in Relevant
    /\ remoteLinks[k] = FirstLinks(k)
    /\ remoteLinks' = [remoteLinks EXCEPT ![k] = NextLinks(k)]
    /\ UNCHANGED <<batch, updated, board, now, dbVars, seq, sync, runs, last,
                   syncRuns, apiVars>>

InitDrift ==
    /\ Init
    /\ batch \in {<<"T3">>, <<"E1", "T1">>}

NextDrift ==
    \/ SyncStep(1) /\ Served(1)
    \/ \E k \in Mutable : Touch(k)
    \/ \E sprint_id \in SprintIds : CloseSprint(sprint_id)
    \/ \E k \in Mutable : Relink(k)

SpecDrift == InitDrift /\ [][NextDrift]_vars

(***************************************************************************)
(* GET /api/metrics (MetricsView.get) over a store of one sprint.          *)
(***************************************************************************)
\* The keys of the epics, in the order of str.
KeyOrder == <<"E1", "E2", "E3">>

KeyLess(a, b) ==
    \E n, m \in DOMAIN KeyOrder : KeyOrder[n] = a /\ KeyOrder[m] = b /\ n < m

TeamKey(c) == SQUAD_PREFIX \o <<c>>

\* The category values a request may carry: none, two that tasks have, one that none has.
QA == <<"q", "a">>

General == <<"g", "e", "n", "e", "r", "a", "l">>

Categories == {NoFilter, QA, General, <<"s", "u", "b">>}

\* order_by("jira_key", "-sprint_snapshot_id") over the epics of the scope.
base_epics_queryset(sprint_snapshots) ==
    LET ids == {sprint_snapshots[n].id : n \in DOMAIN sprint_snapshots}
        epics == {e \in epicRows : e.sprint_snapshot \in ids}
    IN  CHOOSE o \in Orders(epics) :
            \A n \in 1..(Len(o) - 1) :
                \/ KeyLess(o[n].jira_key, o[n + 1].jira_key)
                \/ /\ o[n].jira_key = o[n + 1].jira_key
                   /\ o[n].sprint_snapshot > o[n + 1].sprint_snapshot

\* The loop of get: the epics with their evaluation, without those that have none.
Evaluated(epics, category) ==
    SelectSeq([n \in DOMAIN epics |->
                  [epic |-> epics[n], evaluation |-> evaluate_epic(epics[n], category)]],
              LAMBDA x : ~x.evaluation.none)

\* round((compliant / total) * 100, 2) if total else 0.0, in hundredths.
Percentage(compliant, total) ==
    IF total = 0 THEN 0 ELSE (2 * 10000 * compliant + total) \div (2 * total)

\* A sort key of by_team without the team: (-percentage, -compliant, -total).
RankWithoutKey(a, b) ==
    \/ a.compliance_percentage > b.compliance_percentage
    \/ /\ a.compliance_percentage = b.compliance_percentage
       /\ \/ a.compliant_epics > b.compliant_epics
          \/ /\ a.compliant_epics = b.compliant_epics
             /\ a.total_epics > b.total_epics

\* The sort key of by_team: (-percentage, -compliant, -total, team).
RankBefore(a, b) ==
    \/ a.compliance_percentage > b.compliance_percentage
    \/ /\ a.compliance_percentage = b.compliance_percentage
       /\ \/ a.compliant_epics > b.compliant_epics
          \/ /\ a.compliant_epics = b.compliant_epics
             /\ \/ a.total_epics > b.total_epics
                \/ a.total_epics = b.total_epics /\ StrLess(a.team, b.team)


\* The keys of counters, in the order in which the loop first meets them;
\* epic.teams.all() comes in the order of Team.Meta.ordering.
RECURSIVE TeamsMet(_)
TeamsMet(evaluated) ==
    IF evaluated = <<>> THEN <<>>
    ELSE LET met == TeamsMet(SubSeq(evaluated, 1, Len(evaluated) - 1))
             teams == Sorted(evaluated[Len(evaluated)].epic.teams)
         IN  met \o SelectSeq(teams, LAMBDA t : t \notin Range(met))

\* list.sort(key=...): a stable sort, by insertion of each item after
\* the items that do not come after it.
RECURSIVE StableSort(_)
StableSort(items) ==
    IF items = <<>> THEN <<>>
    ELSE LET sorted == StableSort(SubSeq(items, 1, Len(items) - 1))
             item == items[Len(items)]
             after == {n \in DOMAIN sorted : RankBefore(item, sorted[n])}
             at == IF after = {} THEN Len(sorted) + 1
                   ELSE CHOOSE n \in after : \A m \in after : n <= m
         IN  SubSeq(sorted, 1, at - 1) \o <<item>> \o SubSeq(sorted, at, Len(sorted))

build_team_metrics(evaluated) ==
    LET teams == TeamsMet(evaluated)
        total(t) == Cardinality({n \in DOMAIN evaluated : t \in evaluated[n].epic.teams})
        compliant(t) ==
            Cardinality({n \in DOMAIN evaluated :
                            /\ t \in evaluated[n].epic.teams
                            /\ evaluated[n].evaluation.is_compliant})
        metrics_ == [n \in DOMAIN teams |->
                        [team |-> teams[n], total_epics |-> total(teams[n]),
                         compliant_epics |-> compliant(teams[n]),
                         non_compliant_epics |-> total(teams[n]) - compliant(teams[n]),
                         compliance_percentage |->
                             Percentage(compliant(teams[n]), total(teams[n]))]]
        sorted == StableSort(metrics_)
    IN  [index \in DOMAIN sorted |-> [rank |-> index] @@ sorted[index]]

MetricsGet ==
    \E category \in Categories, sprint_snapshot_id \in {NoId} \cup SnapshotIds :
        LET sprint_snapshots == resolve_sprint_snapshots(sprint_snapshot_id)
            epics == base_epics_queryset(sprint_snapshots)
            evaluated == Evaluated(epics, category)
            total_epics == Len(evaluated)
            compliant_epics ==
                Cardinality({n \in DOMAIN evaluated : evaluated[n].evaluation.is_compliant})
        IN  /\ metrics' =
                  IF sprint_snapshots = <<>>
                  THEN [asked |-> TRUE, category |-> category, scope |-> <<>>,
                        evaluated |-> <<>>, total_epics |-> 0, compliant_epics |-> 0,
                        non_compliant_epics |-> 0, compliance_percentage |-> 0,
                        by_team |-> <<>>]
                  ELSE [asked |-> TRUE, category |-> category,
                        scope |-> [n \in DOMAIN sprint_snapshots |-> sprint_snapshots[n].id],
                        evaluated |-> [n \in DOMAIN evaluated |->
                                          [epic |-> evaluated[n].epic.id,
                                           evaluation |-> evaluated[n].evaluation]],
                        total_epics |-> total_epics,
                        compliant_epics |-> compliant_epics,
                        non_compliant_epics |-> total_epics - compliant_epics,
                        compliance_percentage |-> Percentage(compliant_epics, total_epics),
                        by_team |-> build_team_metrics(evaluated)]
            /\ UNCHANGED <<trackerVars, now, dbVars, seq, sync, runs, last, syncRuns,
                           nudgeVars, req>>

\* A store of one generation of one sprint: three epics, each with teams and
\* with DoD tasks of one of these kinds.
TeamChoices == {{TeamKey("a")}, {TeamKey("a"), TeamKey("b")}, {TeamKey("b"), TeamKey("c")}}

TaskChoices == {"none", "ok", "open", "mixed"}

StoredTask(id, epic, key, category, done, link) ==
    [id |-> id, epic_snapshot |-> epic, jira_issue_id |-> key, jira_key |-> key,
     category |-> category, is_done |-> done, has_evidence_link |-> link # <<>>,
     evidence_link |-> link,
     non_compliance_reason |-> non_compliance_reason(done, link # <<>>)]

\* The tasks of epic number n of that kind.
StoredTasks(n, kind) ==
    CASE kind = "ok" -> {StoredTask(3 * n, n, "T1", QA, TRUE, <<"u">>)}
      [] kind = "open" -> {StoredTask(3 * n, n, "T6", QA, FALSE, <<"w">>)}
      [] kind = "mixed" -> {StoredTask(3 * n, n, "T1", QA, TRUE, <<"u">>),
                            StoredTask(3 * n + 1, n, "T3", General, TRUE, <<>>),
                            StoredTask(3 * n + 2, n, "T7", General, FALSE, <<>>)}
      [] OTHER -> {}

InitView ==
    /\ batch = <<>>
    /\ updated = [k \in RealKeys |-> 0]
    /\ board = FirstBoard
    /\ remoteLinks = [k \in RealKeys |-> FirstLinks(k)]
    /\ now = 1
    /\ sprintRows = {[id |-> 1, jira_sprint_id |-> "10", sprint_name |-> "Sprint",
                      sprint_state |-> "active", sync_timestamp |-> 0,
                      issue_versions |-> <<>>]}
    /\ \E teams \in [DOMAIN KeyOrder -> TeamChoices], kinds \in [DOMAIN KeyOrder -> TaskChoices] :
          /\ epicRows = {[id |-> n, sprint_snapshot |-> 1, jira_issue_id |-> KeyOrder[n],
                          jira_key |-> KeyOrder[n], is_done |-> FALSE,
                          missing_squad_labels |-> teams[n] = {},
                          squad_label_warnings |-> <<>>, teams |-> teams[n]] :
                            n \in DOMAIN KeyOrder}
          /\ taskRows = UNION {StoredTasks(n, kinds[n]) : n \in DOMAIN KeyOrder}
          /\ teamRows = UNION {teams[n] : n \in DOMAIN KeyOrder}
    /\ seq = [sprint |-> 1, epic |-> 3, task |-> 11]
    /\ sync = [p \in Procs |-> IdleLocals]
    /\ runs = 0
    /\ last = NeverRan
    /\ syncRuns = <<>>
    /\ nudgeLogs = {}
    /\ outbox = 0
    /\ nudge = NoNudge
    /\ metrics = NoMetrics
    /\ req = [p \in Procs |-> IdleRequest]

NextView == MetricsGet

SpecView == InitView /\ [][NextView]_vars

(***************************************************************************)
(* What the properties read of the batch, computed from the tracker's      *)
(* issue table and not from the locals of a call.                          *)
(***************************************************************************)
BatchSprints == UNION {Range(IssueFields(b).sprints) : b \in Range(batch)}

InSprint(sid) == {b \in Range(batch) : sid \in Range(IssueFields(b).sprints)}

\* The epic keys the issues of a sprint resolve to.
EpicKeysIn(sid) == {extract_epic_key(IssueFields(b)) : b \in InSprint(sid)} \ {NoKey}

\* The tracker issues whose stamp the fingerprint of a sprint holds.
Holding(sid) == {TrackerKey(k) : k \in InSprint(sid) \cup EpicKeysIn(sid)}

NewSprints(l) == sprintRows \ l.db_before.sprints

ChangedKeys(l) == {k \in RealKeys : l.before.updated[k] # l.seen[k]}

\* Two syncs in a row have ended well.
SecondOfTwo(l) == l.pc = "done" /\ l.before.outcome = "done"

\* C1 (idempotence): when sync_active_sprint returns twice in a row and the
\* adapter gave the same batch with the same version tokens both times, the
\* second call creates no SprintSnapshot, EpicSnapshot or DoDTaskSnapshot row
\* and returns a summary of zeros.
C1_Idempotent ==
    LET l == sync[1]
    IN  (SecondOfTwo(l) /\ l.before.updated = l.seen) =>
            /\ sprintRows = l.db_before.sprints
            /\ epicRows = l.db_before.epics
            /\ taskRows = l.db_before.tasks
            /\ l.result = [NoResult EXCEPT !.kind = "summary"]

C1_Witness ==
    LET l == sync[1]
    IN  /\ SecondOfTwo(l)
        /\ l.before.updated = l.seen
        /\ Cardinality(sprintRows) = 2
        /\ taskRows # {}

\* C2 as it stands (change detection): when the only change between two
\* successful syncs is one issue's "updated" token, the second creates exactly
\* one SprintSnapshot, for a sprint of that issue, and every other sprint keeps
\* its generations.
C2_ExactlyOneGeneration ==
    LET l == sync[1]
    IN  (SecondOfTwo(l) /\ Cardinality(ChangedKeys(l)) = 1) =>
            /\ Cardinality(NewSprints(l)) = 1
            /\ \A r \in NewSprints(l) :
                  \E k \in ChangedKeys(l) : k \in Holding(r.jira_sprint_id)

\* C2 amended: when the only change between two successful syncs is one
\* issue's "updated" token, the second creates exactly one SprintSnapshot for
\* every sprint whose fingerprint holds that issue (each sprint the issue is in,
\* and each sprint with an issue resolving to it as its epic) and none for any
\* other sprint, whose generations stay the same rows.
C2_OneGenerationPerSprintOfIssue ==
    LET l == sync[1]
    IN  (SecondOfTwo(l) /\ Cardinality(ChangedKeys(l)) = 1) =>
            LET k == CHOOSE k \in ChangedKeys(l) : TRUE
                affected == {sid \in BatchSprints : k \in Holding(sid)}
            IN  /\ {r.jira_sprint_id : r \in NewSprints(l)} = affected
                /\ Cardinality(NewSprints(l)) = Cardinality(affected)
                /\ \A sid \in BatchSprints \ affected :
                      SnapshotsOf(sid) =
                          {r \in l.db_before.sprints : r.jira_sprint_id = sid}

C2_Witness ==
    LET l == sync[1]
    IN  /\ SecondOfTwo(l)
        /\ ChangedKeys(l) = {"T1"}
        /\ Cardinality(BatchSprints) = 2
        /\ Cardinality(NewSprints(l)) = 1
        /\ l.db_before.sprints # {}

(***************************************************************************)
(* The snapshot tree a sprint of the batch must have.                      *)
(***************************************************************************)
EpicsOf(r) == {e \in epicRows : e.sprint_snapshot = r.id}

TasksOf(e) == {t \in taskRows : t.epic_snapshot = e.id}

\* The DoD tasks of a sprint under an epic key, and the team keys of that group.
DodTasksIn(sid, ek) ==
    {b \in InSprint(sid) : IssueFields(b).dod /\ extract_epic_key(IssueFields(b)) = ek}

TeamsIn(sid, ek) ==
    UNION {extract_team_metadata(<<IssueFields(b)>>).teams :
             b \in {ek} \cup {x \in InSprint(sid) : extract_epic_key(IssueFields(x)) = ek}}

CompleteTree(r) ==
    /\ {e.jira_key : e \in EpicsOf(r)} = {TrackerKey(k) : k \in EpicKeysIn(r.jira_sprint_id)}
    /\ Cardinality(EpicsOf(r)) = Cardinality(EpicKeysIn(r.jira_sprint_id))
    /\ \A e \in EpicsOf(r) :
          /\ {t.jira_key : t \in TasksOf(e)} = DodTasksIn(r.jira_sprint_id, e.jira_key)
          /\ Cardinality(TasksOf(e)) = Cardinality(DodTasksIn(r.jira_sprint_id, e.jira_key))
          /\ e.teams = TeamsIn(r.jira_sprint_id, e.jira_key)
          /\ e.teams \subseteq teamRows

\* C3 (per-sprint atomicity): in every committed state a SprintSnapshot stands
\* with the complete set of EpicSnapshots, DoDTaskSnapshots and team links of
\* its batch, and no epic or task row stands without its parent; a transaction
\* that raised left none of its writes.
C3_SprintTreeAtomic ==
    /\ \A r \in sprintRows : CompleteTree(r)
    /\ \A e \in epicRows : \E r \in sprintRows : e.sprint_snapshot = r.id
    /\ \A t \in taskRows : \E e \in epicRows : t.epic_snapshot = e.id
    /\ \A p \in Procs :
          (~Running(p) /\ sync[p].pc # "idle") =>
              /\ {r.id : r \in sprintRows \ sync[p].db_before.sprints} = sync[p].mine.sprints
              /\ {e.id : e \in epicRows \ sync[p].db_before.epics} = sync[p].mine.epics
              /\ {t.id : t \in taskRows \ sync[p].db_before.tasks} = sync[p].mine.tasks

\* A transaction that had written the sprint row and an epic raised, and nothing of it stands.
C3_Witness ==
    /\ sync[1].pc = "failed"
    /\ sync[1].exc = "JiraApiError"
    /\ sync[1].calls.remote_links > 0
    /\ seq.epic > Cardinality(epicRows)
    /\ sprintRows # {}

(***************************************************************************)
(* The generations of a sprint in (sync_timestamp, id) order.              *)
(***************************************************************************)
Before(a, b) ==
    \/ a.sync_timestamp < b.sync_timestamp
    \/ a.sync_timestamp = b.sync_timestamp /\ a.id < b.id

Adjacent(a, b) ==
    /\ a.jira_sprint_id = b.jira_sprint_id
    /\ Before(a, b)
    /\ ~\E c \in SnapshotsOf(a.jira_sprint_id) : Before(a, c) /\ Before(c, b)

\* C4: after any sequence of sync invocations, successful or failed, no two
\* generations of one sprint id that are adjacent in (sync_timestamp, id) order
\* carry equal issue_versions fingerprints.
C4_NoRepeatedFingerprint ==
    \A a \in sprintRows : \A b \in sprintRows :
        Adjacent(a, b) => a.issue_versions # b.issue_versions

\* Two generations of one sprint taken at the same instant, after a failed call.
C4_Witness ==
    \E a \in sprintRows : \E b \in sprintRows :
        /\ Adjacent(a, b)
        /\ a.sync_timestamp = b.sync_timestamp
        /\ last.outcome = "failed"

\* C5: two overlapping sync invocations over one tracker state never both
\* commit a generation, with its epics and tasks, for the same sprint id and
\* fingerprint: the second fails on a constraint instead.
C5_NoSilentDuplicate ==
    \A a \in sprintRows : \A b \in sprintRows :
        (a.id \in sync[1].mine.sprints /\ b.id \in sync[2].mine.sprints) =>
            ~(/\ a.jira_sprint_id = b.jira_sprint_id
              /\ a.issue_versions = b.issue_versions)

\* C6 (failure semantics): when the k-th sprint of a call raises, the call
\* ends with that exception and no summary, creates nothing for sprint k or a
\* later one, and the generations it committed for sprints 1..k-1 stand whole.
C6_FailureSemantics ==
    LET l == sync[1]
    IN  l.exc # "" =>
            /\ l.pc = "failed"
            /\ l.result = [NoResult EXCEPT !.kind = "error", !.error = l.exc]
            /\ {r.jira_sprint_id : r \in NewSprints(l)}
                   \subseteq {l.sprints[j] : j \in 1..(l.i - 1)}
            /\ {r.id : r \in NewSprints(l)} = l.mine.sprints
            /\ \A r \in NewSprints(l) : CompleteTree(r)

\* The second sprint raised after the first was committed by the same call.
C6_Witness ==
    LET l == sync[1]
    IN  /\ l.pc = "failed"
        /\ l.i = 2
        /\ Cardinality(NewSprints(l)) = 1
        /\ EpicsOf(CHOOSE r \in NewSprints(l) : TRUE) # {}

\* C7: when sync_active_sprint returns, the three counters of the summary are
\* the numbers of SprintSnapshot, EpicSnapshot and DoDTaskSnapshot rows the call
\* committed (a skipped sprint adds nothing), and an empty batch gives a summary
\* of zeros with no write and no adapter call after the search.
C7_SummaryCounts ==
    LET l == sync[1]
    IN  l.pc = "done" =>
            /\ l.result.kind = "summary"
            /\ l.result.sprint_snapshots = Cardinality(sprintRows \ l.db_before.sprints)
            /\ l.result.epic_snapshots = Cardinality(epicRows \ l.db_before.epics)
            /\ l.result.dod_task_snapshots = Cardinality(taskRows \ l.db_before.tasks)
            /\ batch = <<>> =>
                  /\ l.result = [NoResult EXCEPT !.kind = "summary"]
                  /\ l.calls = [NoCalls EXCEPT !.search = 1]
                  /\ sprintRows = {} /\ epicRows = {} /\ taskRows = {} /\ teamRows = {}

\* A call that skipped one sprint and wrote the other, after one that wrote both.
C7_Witness ==
    LET l == sync[1]
    IN  /\ l.pc = "done"
        /\ l.before.outcome = "done"
        /\ l.result.sprint_snapshots = 1
        /\ l.result.epic_snapshots = 1
        /\ l.result.dod_task_snapshots = 1
        /\ Cardinality(BatchSprints) = 2
        /\ Cardinality(epicRows) = 3

\* The batch makes a sprint hold one issue id twice under one parent: two epic
\* keys answered with the same issue, or a DoD task listed twice.
DuplicateIn(sid) ==
    \/ \E k1 \in EpicKeysIn(sid) : \E k2 \in EpicKeysIn(sid) :
          k1 # k2 /\ IssueFields(k1).id = IssueFields(k2).id
    \/ \E n \in DOMAIN batch : \E m \in DOMAIN batch :
          /\ n # m
          /\ IssueFields(batch[n]).id = IssueFields(batch[m]).id
          /\ batch[n] \in InSprint(sid) /\ batch[m] \in InSprint(sid)
          /\ IssueFields(batch[n]).dod /\ IssueFields(batch[m]).dod
          /\ extract_epic_key(IssueFields(batch[n])) # NoKey
          /\ extract_epic_key(IssueFields(batch[n]))
                 = extract_epic_key(IssueFields(batch[m]))

\* C8: no two EpicSnapshots share (sprint_snapshot, jira_issue_id) and no two
\* DoDTaskSnapshots share (epic_snapshot, jira_issue_id), in the tables and in
\* an open transaction; a batch that would write such a pair makes the call
\* raise IntegrityError and leaves no generation of that sprint: the pair is
\* never merged into one row or written over.
C8_UniquePerParent ==
    LET l == sync[1]
        epics == epicRows \cup l.tx.epics
        tasks == taskRows \cup l.tx.tasks
    IN  /\ \A a \in epics : \A b \in epics :
              (a.sprint_snapshot = b.sprint_snapshot
                   /\ a.jira_issue_id = b.jira_issue_id) => a = b
        /\ \A a \in tasks : \A b \in tasks :
              (a.epic_snapshot = b.epic_snapshot
                   /\ a.jira_issue_id = b.jira_issue_id) => a = b
        /\ \A r \in sprintRows : ~DuplicateIn(r.jira_sprint_id)
        /\ l.pc = "commit" => ~DuplicateIn(l.sprints[l.i])
        /\ l.exc = "IntegrityError" => l.pc = "failed" /\ DuplicateIn(l.sprints[l.i])

\* The second write of one (epic_snapshot, jira_issue_id) raised.
C8_Witness ==
    LET l == sync[1]
    IN  /\ l.exc = "IntegrityError"
        /\ seq.task = 2
        /\ seq.sprint = 1
        /\ taskRows = {}

\* C9: the gate compares the candidate fingerprint with the latest generation
\* of the same sprint id only (greatest sync_timestamp, then greatest id): the
\* sprint is skipped iff that generation's fingerprint has the same keys and
\* values; otherwise, and with no generation of the sprint id, the transaction
\* opens with a SprintSnapshot carrying the candidate, also when an older
\* generation or another sprint id carries it.
C9_GateComparesLatest ==
    [][LET l == sync[1]
           sid == l.sprints[l.i]
           prior == {r \in sprintRows : r.jira_sprint_id = sid}
           same == \E r \in prior :
                      /\ \A o \in prior \ {r} : Before(o, r)
                      /\ r.issue_versions = l.issue_versions
       IN  l.pc = "gate" =>
               IF same
               THEN sync'[1].pc = "sprint" /\ sync'[1].i = l.i + 1
                        /\ sync'[1].tx = EmptyTx
               ELSE \E n \in sync'[1].tx.sprints :
                        /\ sync'[1].tx.sprints = {n}
                        /\ n.jira_sprint_id = sid
                        /\ n.issue_versions = l.issue_versions
                        /\ n.sync_timestamp = l.sync_ts
                        /\ n.id \notin {r.id : r \in sprintRows}
      ]_vars

\* Past the gate with a candidate that an older generation of the sprint and a
\* generation of the other sprint carry.
C9_Witness ==
    LET l == sync[1]
    IN  /\ l.tx.sprints # {}
        /\ \E r \in sprintRows : /\ r.jira_sprint_id = l.sprints[l.i]
                                 /\ r.issue_versions = l.issue_versions
        /\ \E r \in sprintRows : /\ r.jira_sprint_id # l.sprints[l.i]
                                 /\ r.issue_versions = l.issue_versions

\* C10: a sync invocation, successful or failed, leaves every committed
\* SprintSnapshot, EpicSnapshot and DoDTaskSnapshot row with its team links,
\* and every Team, as it was: rows are added and never changed or deleted.
C10_StoreOnlyGrows ==
    [][/\ sprintRows \subseteq sprintRows'
       /\ epicRows \subseteq epicRows'
       /\ taskRows \subseteq taskRows'
       /\ teamRows \subseteq teamRows'
       /\ \A r \in sprintRows' \ sprintRows : r.id \notin {o.id : o \in sprintRows}
       /\ \A r \in epicRows' \ epicRows : r.id \notin {o.id : o \in epicRows}
       /\ \A r \in taskRows' \ taskRows : r.id \notin {o.id : o \in taskRows}
      ]_vars

\* A third generation of a sprint committed beside the two before it.
C10_Witness ==
    \E a \in sprintRows : \E b \in sprintRows : \E c \in sprintRows :
        /\ a.jira_sprint_id = b.jira_sprint_id /\ b.jira_sprint_id = c.jira_sprint_id
        /\ a.id < b.id /\ b.id < c.id
        /\ EpicsOf(a) # {} /\ EpicsOf(b) # {} /\ EpicsOf(c) # {}

\* C11: Team get-or-create is duplicate-free and race-safe: under any
\* interleaving of two sync invocations no Team key is inserted twice (neither
\* by two open transactions nor beside a committed row), and no invocation
\* fails because the other created a key concurrently.
C11_TeamRaceSafe ==
    /\ \A p \in Procs : sync[p].tx.teams \cap teamRows = {}
    /\ \A p \in Procs : \A q \in Procs \ {p} :
          sync[p].tx.teams \cap sync[q].tx.teams = {}
    /\ \A p \in Procs : sync[p].exc # "OperationalError"

\* The sprint id of the generation an EpicSnapshot belongs to.
SprintIdOf(e) ==
    (CHOOSE r \in sprintRows \cup sync[1].tx.sprints : r.id = e.sprint_snapshot).jira_sprint_id

\* C12: missing labels, malformed or non-string labels and issues without an
\* epic never fail the sync: a call fails only by an adapter error or a
\* constraint on a duplicated issue, and the anomalies stand as data: the
\* missing flag is set exactly when no team was read, the malformed labels are
\* the warnings in their raw form, a non-string or blank label leaves no
\* trace, and an issue without an epic has no row.
C12_AnomaliesAreData ==
    LET l == sync[1]
        epics == epicRows \cup l.tx.epics
    IN  /\ l.exc \in {"", "JiraApiError", "IntegrityError", "JiraConfigurationError"}
        /\ l.exc = "JiraConfigurationError" => ~l.env
        /\ l.exc = "IntegrityError" => DuplicateIn(l.sprints[l.i])
        /\ \A e \in epics :
              /\ e.missing_squad_labels = (e.teams = {})
              /\ \A n \in DOMAIN e.squad_label_warnings :
                    StartsWith(StrLower(e.squad_label_warnings[n]),
                               <<"s", "q", "u", "a", "d">>)
              /\ e.jira_key # "T5"
              /\ (e.jira_key = "E2" /\ SprintIdOf(e) = "20" /\ "T2" \in Range(batch)) =>
                    /\ e.teams = {<<"s", "q", "u", "a", "d", "_", "b">>}
                    /\ e.squad_label_warnings =
                          << <<"S", "Q", "U", "A", "D", "_">>,
                             <<"s", "q", "u", "a", "d">> >>
              /\ (e.jira_key = "E2" /\ batch = <<"T3">>) =>
                    e.teams = {} /\ e.squad_label_warnings = <<>>
        /\ \A t \in taskRows \cup l.tx.tasks : t.jira_key # "T5"

\* A call has returned over the batch with the malformed labels and the issue
\* without an epic, and the warnings stand on the committed EpicSnapshot.
C12_Witness ==
    /\ sync[1].pc = "done"
    /\ sync[1].result.sprint_snapshots = 2
    /\ "T5" \in Range(batch)
    /\ \E e \in epicRows : Len(e.squad_label_warnings) = 2 /\ ~e.missing_squad_labels
    /\ \E e \in epicRows : e.teams # {} /\ e.squad_label_warnings = <<>>

\* What the SyncRun table must hold of the calls made so far.
RunsRecorded ==
    /\ Len(syncRuns) = runs
    /\ \A id \in DOMAIN syncRuns :
          LET r == syncRuns[id]
          IN  /\ r.id = id
              /\ r.status \in {"RUNNING", "SUCCESS", "FAILED"}
              /\ r.status = "RUNNING" <=>
                    \E p \in Procs : Running(p) /\ sync[p].run = id
              /\ r.status = "RUNNING" =>
                    /\ r.finished_at = NoTime
                    /\ r.error_message = ""
                    /\ r.sprint_snapshots = 0
                    /\ r.epic_snapshots = 0
                    /\ r.dod_task_snapshots = 0
    /\ \A p \in Procs :
          LET l == sync[p]
              r == syncRuns[l.run]
          IN  /\ l.pc = "done" =>
                    /\ r.status = "SUCCESS"
                    /\ r.sprint_snapshots = l.result.sprint_snapshots
                    /\ r.epic_snapshots = l.result.epic_snapshots
                    /\ r.dod_task_snapshots = l.result.dod_task_snapshots
                    /\ r.finished_at # NoTime
                    /\ r.finished_at >= r.started_at
                    /\ r.error_message = ""
              /\ l.pc = "failed" =>
                    /\ r.status = "FAILED"
                    /\ r.error_message = l.exc
                    /\ r.finished_at # NoTime
                    /\ l.result = [NoResult EXCEPT !.kind = "error", !.error = l.exc]

\* C13: every execute_sync call creates exactly one SyncRun, RUNNING while the
\* call goes on; when sync_active_sprint returns the run is SUCCESS with the
\* three counters of the summary and finished_at; when anything raises it is
\* FAILED with the error message and finished_at and the caller gets the same
\* exception; no run is RUNNING after its call and a run in a terminal status
\* is never written again.
C13_RunLifecycle ==
    [][/\ RunsRecorded'
       /\ Len(syncRuns') \in {Len(syncRuns), Len(syncRuns) + 1}
       /\ Len(syncRuns') = Len(syncRuns) + 1 =>
             syncRuns'[Len(syncRuns')].status = "RUNNING"
       /\ \A id \in DOMAIN syncRuns :
             syncRuns[id].status # "RUNNING" => syncRuns'[id] = syncRuns[id]
      ]_vars

\* A failed run, then a successful one with two generations, then one that goes on.
C13_Witness ==
    /\ Len(syncRuns) = 3
    /\ syncRuns[1].status = "FAILED"
    /\ syncRuns[1].error_message = "JiraApiError"
    /\ syncRuns[2].status = "SUCCESS"
    /\ syncRuns[2].sprint_snapshots = 1
    /\ syncRuns[2].dod_task_snapshots = 1
    /\ syncRuns[3].status = "RUNNING"

\* C14: a call whose environment lacks the credentials ends in from_env with
\* JiraConfigurationError, the exception its caller gets, before any adapter
\* call, and leaves the SprintSnapshot, EpicSnapshot, DoDTaskSnapshot and Team
\* tables as they were; no other failure carries that exception.
C14_ConfigurationErrorFirst ==
    \A p \in Procs :
        LET l == sync[p]
        IN  /\ (~l.env /\ l.pc # "from_env") =>
                  /\ l.pc = "failed"
                  /\ l.exc = "JiraConfigurationError"
                  /\ l.result = [NoResult EXCEPT !.kind = "error",
                                                 !.error = "JiraConfigurationError"]
                  /\ l.calls = NoCalls
                  /\ sprintRows = l.db_before.sprints
                  /\ epicRows = l.db_before.epics
                  /\ taskRows = l.db_before.tasks
                  /\ teamRows = l.db_before.teams
            /\ l.exc = "JiraConfigurationError" => ~l.env
            /\ (l.exc # "" /\ l.env) => l.calls.search = 1

\* The credentials went missing after a run that had filled the store.
C14_Witness ==
    /\ sync[1].exc = "JiraConfigurationError"
    /\ sync[1].before.outcome = "done"
    /\ sprintRows # {}
    /\ teamRows # {}
    /\ syncRuns[Len(syncRuns)].status = "FAILED"

(***************************************************************************)
(* The nudge cooldown.                                                     *)
(***************************************************************************)
EpicOf(log) == CHOOSE e \in epicRows : e.id = log.epic_snapshot

SprintOf(epic) == CHOOSE r \in sprintRows : r.id = epic.sprint_snapshot

Apart(g, h) == IF g.sent_at >= h.sent_at THEN g.sent_at - h.sent_at
               ELSE h.sent_at - g.sent_at

\* C15: _nudge_state reports the cooldown active exactly when the sent time of
\* the epic's latest NudgeLog plus the window lies after now, also when less
\* than a second of it remains; inactive without a NudgeLog; seconds_remaining
\* is the difference clamped at zero.
C15_CooldownState ==
    \A e \in epicRows :
        LET latest_nudge == latest_nudge_log(e)
            expires_at == latest_nudge.sent_at + NUDGE_COOLDOWN
            state == nudge_state(e, now)
        IN  /\ latest_nudge = NoLog =>
                ~state.cooldown_active /\ state.seconds_remaining = 0
            /\ latest_nudge # NoLog =>
                /\ state.cooldown_active <=> expires_at > now
                /\ state.seconds_remaining =
                     IF expires_at > now THEN IntSeconds(expires_at - now) ELSE 0

\* C16: no two NudgeLogs of one epic snapshot are less than the cooldown
\* window apart: a request within the window of a sent nudge creates none.
C16_CooldownEnforced ==
    \A g, h \in nudgeLogs :
        g # h /\ g.epic_snapshot = h.epic_snapshot => Apart(g, h) >= NUDGE_COOLDOWN

\* C17: across syncs, two nudges for one epic key in one sprint, sent for
\* different generations of that sprint, are at least the window apart.
C17_CooldownAcrossSyncs ==
    \A g, h \in nudgeLogs :
        /\ g.epic_snapshot # h.epic_snapshot
        /\ EpicOf(g).jira_key = EpicOf(h).jira_key
        /\ SprintOf(EpicOf(g)).jira_sprint_id = SprintOf(EpicOf(h)).jira_sprint_id
        => Apart(g, h) >= NUDGE_COOLDOWN

\* C18: a NudgeLog is created only by a request whose epic was evaluated
\* non-compliant without a category filter, whose cooldown _nudge_state
\* reported inactive, which resolved a recipient and whose send succeeded; any
\* other request creates no NudgeLog and leaves every cooldown state as it was.
C18_LogsAreSentNudges ==
    [][/\ nudgeLogs' # nudgeLogs =>
            \E log \in nudgeLogs' \ nudgeLogs :
                /\ nudgeLogs' = nudgeLogs \cup {log}
                /\ \E e \in epicRows :
                      /\ e.id = log.epic_snapshot
                      /\ ~evaluate_epic(e, NoFilter).is_compliant
                      /\ ~nudge_state(e, now).cooldown_active
                /\ log.recipient_emails # {}
                /\ log.sent_at = now
                /\ outbox' = outbox + 1
                /\ nudge'.status = 200
       /\ nudgeLogs' = nudgeLogs =>
            /\ outbox' = outbox
            /\ nudge' # nudge => nudge'.status # 200
            /\ now' = now =>
                 \A e \in epicRows : nudge_state(e, now)' = nudge_state(e, now)
      ]_vars

\* A nudge was sent, and a later send raised.
C18_Witness ==
    /\ nudgeLogs # {}
    /\ outbox = Cardinality(nudgeLogs)
    /\ nudge.reason = "send_mail_raised"

(***************************************************************************)
(* The DoDTaskSnapshot rows and the epic they hang on.                     *)
(***************************************************************************)
\* The rows written so far, committed or inside an open transaction.
AllTasks == taskRows \cup UNION {sync[p].tx.tasks : p \in Procs}

AllEpics == epicRows \cup UNION {sync[p].tx.epics : p \in Procs}

\* The first url of the tracker's links that is a string with more than blanks.
EvidenceOf(k) ==
    LET links == RemoteLinks(k)
        good == {n \in DOMAIN links : links[n].isstr /\ Strip(links[n].chars) # <<>>}
    IN  IF good = {} THEN <<>>
        ELSE Strip(links[CHOOSE n \in good : \A m \in good : n <= m].chars)

\* C19: of every DoDTaskSnapshot, has_evidence_link is true iff evidence_link
\* is non-empty, evidence_link being the first remote link with a non-blank
\* URL; non_compliance_reason is task_not_done (iff the task is not done) and
\* missing_evidence_link (iff it has no evidence link), in this order, joined
\* by a comma; it is empty iff the task is compliant for the Evaluator.
C19_TaskEvidenceAndReason ==
    \A t \in AllTasks :
        /\ t.has_evidence_link <=> t.evidence_link # <<>>
        /\ t.evidence_link = EvidenceOf(t.jira_key)
        /\ t.is_done = IssueFields(t.jira_key).done
        /\ t.non_compliance_reason =
             CASE t.is_done /\ t.has_evidence_link -> ""
               [] ~t.is_done /\ t.has_evidence_link -> "task_not_done"
               [] t.is_done /\ ~t.has_evidence_link -> "missing_evidence_link"
               [] OTHER -> "task_not_done,missing_evidence_link"
        /\ t.non_compliance_reason = "" <=> task_is_compliant(t)

\* An open task with evidence and one without, both stored; the evidence is
\* the stripped url.
C19_Witness ==
    /\ \E t \in taskRows : /\ t.jira_key = "T6"
                           /\ t.non_compliance_reason = "task_not_done"
                           /\ t.evidence_link = <<"w">>
    /\ \E t \in taskRows : /\ t.jira_key = "T7"
                           /\ t.non_compliance_reason = "task_not_done,missing_evidence_link"

\* The epic key of an issue by the rules, read off the tracker's fields.
RuleKey(f) ==
    IF f.issuetype \in {"Epic", "epic", "EPIC"} THEN f.key
    ELSE IF f.parentKey # NoKey /\ f.parentType \in {"Epic", "epic", "EPIC"}
         THEN f.parentKey
    ELSE IF f.epicLink \notin {"", "  "}
         THEN (IF f.epicLink = " E2 " THEN "E2" ELSE f.epicLink)
    ELSE NoKey

\* C20: an issue resolves to its own key if its type is Epic (in any case),
\* else to its parent's key if the parent's type is Epic, else to its non-blank
\* epic link, else to no epic and no group; every in-sprint issue is in at
\* most one group, and every DoDTaskSnapshot hangs on the EpicSnapshot of the
\* key its issue resolves to.
C20_EpicGrouping ==
    /\ \A k \in Keys : extract_epic_key(IssueObject(k)) = RuleKey(IssueFields(k))
    /\ \A p \in Procs :
        LET groups == sync[p].groups
            in_sprint == sync[p].in_sprint
        IN  groups # <<>> =>
              /\ \A g, h \in DOMAIN groups :
                    groups[g].epic_key = groups[h].epic_key => g = h
              /\ \A g \in DOMAIN groups : \A n \in DOMAIN groups[g].linked :
                    RuleKey(IssueFields(groups[g].linked[n].key)) = groups[g].epic_key
              /\ \A n \in DOMAIN in_sprint :
                    LET k == in_sprint[n].key
                        holding == {g \in DOMAIN groups :
                                      \E m \in DOMAIN groups[g].linked :
                                          groups[g].linked[m].key = k}
                    IN  /\ Cardinality(holding) <= 1
                        /\ holding = {} <=> RuleKey(IssueFields(k)) = NoKey
    /\ \A t \in AllTasks :
          \E e \in AllEpics :
              /\ e.id = t.epic_snapshot
              /\ e.jira_key = RuleKey(IssueFields(t.jira_key))

\* Stored: the task whose parent is an epic and whose epic link names another
\* epic, on the EpicSnapshot of the parent.
C20_Witness ==
    \E t \in taskRows : \E e \in epicRows :
        /\ t.jira_key = "T7"
        /\ IssueFields("T7").epicLink = "E2"
        /\ e.id = t.epic_snapshot
        /\ e.jira_key = "E1"

(***************************************************************************)
(* Team labels.                                                            *)
(***************************************************************************)
\* The labels of the issues that are strings with more than blanks, stripped.
RawLabels(ks) ==
    {Strip(label.chars) :
        label \in {x \in UNION {Range(IssueFields(k).labels) : k \in ks} : x.isstr}} \ {<<>>}

\* What follows squad_ in a label, lower-cased and stripped (empty: nothing).
TeamName(raw) ==
    IF StartsWith(StrLower(raw), <<"s", "q", "u", "a", "d", "_">>)
    THEN Strip(SubSeq(StrLower(raw), 7, Len(raw)))
    ELSE <<>>

C26_SuffixLabelAccepted ==
    \A e \in epicRows :
        (batch = <<"T3">> /\ e.jira_key = "E2") =>
            /\ e.teams = {<<"s", "q", "u", "a", "d", "_", "e", "c", "h", "o">>}
            /\ ~e.missing_squad_labels
            /\ e.squad_label_warnings = <<>>

(***************************************************************************)
(* The evaluation of an epic and the metrics of a view.                    *)
(***************************************************************************)
\* The tasks of the epic that the category of the request takes in.
ScopedTasks(epic_id) ==
    {t \in taskRows : /\ t.epic_snapshot = epic_id
                      /\ metrics.category \in {NoFilter, t.category}}

Failing(t) == ~t.is_done \/ ~t.has_evidence_link

\* C21: an epic with at least one scoped task has a result; it is compliant
\* if and only if every scoped task is done and has an evidence link, its
\* failing tasks are all the scoped tasks that are not done or lack evidence,
\* and its reasons are ["incomplete_dod_tasks"] if some task fails, else none.
C21_EvaluationOfScopedTasks ==
    metrics.asked =>
        \A e \in epicRows :
            ScopedTasks(e.id) # {} =>
                \E n \in DOMAIN metrics.evaluated :
                    LET x == metrics.evaluated[n].evaluation
                        failing == {t \in ScopedTasks(e.id) : Failing(t)}
                    IN  /\ metrics.evaluated[n].epic = e.id
                        /\ x.is_compliant <=> \A t \in ScopedTasks(e.id) : ~Failing(t)
                        /\ x.failing_tasks = failing
                        /\ x.reasons = IF failing # {} THEN <<"incomplete_dod_tasks">>
                                       ELSE <<>>

\* A view with an epic that has two failing tasks and an epic that is compliant.
C21_Witness ==
    /\ metrics.asked
    /\ \E n, m \in DOMAIN metrics.evaluated :
          /\ Cardinality(metrics.evaluated[n].evaluation.failing_tasks) = 2
          /\ metrics.evaluated[m].evaluation.is_compliant

\* The epics the view counts: all of them without a filter, else those with a scoped task.
Counted == {e \in epicRows : metrics.category = NoFilter \/ ScopedTasks(e.id) # {}}

EvaluationOf(epic_id) ==
    {metrics.evaluated[n].evaluation :
        n \in {m \in DOMAIN metrics.evaluated : metrics.evaluated[m].epic = epic_id}}

\* C22: an epic without scoped tasks has, under a category filter, no result
\* and counts in no total of the view; without a filter it is evaluated
\* non-compliant with the reasons ["no_dod_tasks"] and no failing task.  An
\* epic without DoD tasks is never reported compliant.
C22_EpicWithoutScopedTasks ==
    metrics.asked =>
        /\ \A e \in epicRows :
              ScopedTasks(e.id) = {} =>
                  IF metrics.category # NoFilter
                  THEN EvaluationOf(e.id) = {}
                  ELSE /\ EvaluationOf(e.id) # {}
                       /\ \A x \in EvaluationOf(e.id) :
                             /\ ~x.is_compliant
                             /\ x.reasons = <<"no_dod_tasks">>
                             /\ x.failing_tasks = {}
        /\ metrics.total_epics = Cardinality(Counted)
        /\ metrics.compliant_epics + metrics.non_compliant_epics = Cardinality(Counted)
        /\ \A n \in DOMAIN metrics.by_team :
              LET row == metrics.by_team[n]
              IN  /\ row.total_epics = Cardinality({e \in Counted : row.team \in e.teams})
                  /\ row.compliant_epics + row.non_compliant_epics = row.total_epics
        /\ \A e \in epicRows :
              (\A t \in taskRows : t.epic_snapshot # e.id) =>
                  \A x \in EvaluationOf(e.id) : ~x.is_compliant

\* A view under a filter that leaves out an epic with tasks of another category
\* and an epic without tasks, and counts a third epic.
C22_Witness ==
    /\ metrics.asked
    /\ metrics.category # NoFilter
    /\ metrics.total_epics = 1
    /\ \E e \in epicRows :
          /\ ScopedTasks(e.id) = {}
          /\ \E t \in taskRows : t.epic_snapshot = e.id
    /\ \E e \in epicRows : \A t \in taskRows : t.epic_snapshot # e.id

\* The evaluated epics of the response, as the list the loop of get builds.
EvaluatedEpics ==
    {[epic |-> CHOOSE e \in epicRows : e.id = metrics.evaluated[n].epic,
      evaluation |-> metrics.evaluated[n].evaluation] : n \in DOMAIN metrics.evaluated}

\* C23: the rows of by_team are in the order of descending compliance
\* percentage, then descending compliant count, then descending total, then
\* ascending team key; the rank of a row is its position, counted from one;
\* and every order of the evaluated epics gives the same rows.
C23_TeamRanking ==
    metrics.asked =>
        LET rows == metrics.by_team
        IN  /\ \A n, m \in DOMAIN rows :
                  n < m =>
                      LET a == rows[n]
                          b == rows[m]
                      IN  \/ a.compliance_percentage > b.compliance_percentage
                          \/ /\ a.compliance_percentage = b.compliance_percentage
                             /\ a.compliant_epics > b.compliant_epics
                          \/ /\ a.compliance_percentage = b.compliance_percentage
                             /\ a.compliant_epics = b.compliant_epics
                             /\ a.total_epics > b.total_epics
                          \/ /\ a.compliance_percentage = b.compliance_percentage
                             /\ a.compliant_epics = b.compliant_epics
                             /\ a.total_epics = b.total_epics
                             /\ StrLess(a.team, b.team)
            /\ \A n \in DOMAIN rows : rows[n].rank = n
            /\ {rows[n].rank : n \in DOMAIN rows} = 1..Len(rows)
            /\ \A o \in Orders(EvaluatedEpics) : build_team_metrics(o) = rows

\* A view of three teams: two tied in all three numbers and ranked by key,
\* and one with a lower percentage whose key is the smallest.
C23_Witness ==
    /\ metrics.asked
    /\ Len(metrics.by_team) = 3
    /\ metrics.by_team[1].compliance_percentage = metrics.by_team[2].compliance_percentage
    /\ metrics.by_team[1].compliant_epics = metrics.by_team[2].compliant_epics
    /\ metrics.by_team[1].total_epics = metrics.by_team[2].total_epics
    /\ metrics.by_team[3].team = TeamKey("a")
    /\ metrics.by_team[3].compliance_percentage < metrics.by_team[2].compliance_percentage

(***************************************************************************)
(* The scope of a view and the gate while the tracker changes.             *)
(***************************************************************************)
\* The generations in the scope of a request without sprint_snapshot_id.
DefaultScope == Range(resolve_sprint_snapshots(NoId))

Superseded(r) ==
    \E o \in sprintRows : o.jira_sprint_id = r.jira_sprint_id /\ o.id > r.id

\* C24: without sprint_snapshot_id the scope holds at most one generation of
\* a sprint, the newest of each sprint whose newest generation is active, and
\* no generation that a newer one of the same sprint has superseded.
C24_ScopeOfNewestGenerations ==
    /\ \A r, o \in DefaultScope : r.jira_sprint_id = o.jira_sprint_id => r = o
    /\ \A r \in DefaultScope : ~Superseded(r)

\* The call of process 1 has returned, the call before it had returned too,
\* and every stamp the call saw is the one the call before it saw.
SameMapping ==
    /\ sync[1].pc = "done"
    /\ sync[1].before.outcome = "done"
    /\ sync[1].seen = sync[1].before.updated

\* C27: a sync that sees the key-to-token mapping of the sync before it
\* creates no generation, whatever became of the sprint's name and state and
\* of the remote links of the DoD tasks; it looks up no remote links, and
\* the rows of the store are those of the earlier generation.
C27_GateReadsTokensOnly ==
    SameMapping =>
        /\ sync[1].mine = NoRows
        /\ sync[1].calls.remote_links = 0
        /\ sprintRows = sync[1].db_before.sprints
        /\ epicRows = sync[1].db_before.epics
        /\ taskRows = sync[1].db_before.tasks

\* The sprint was closed and renamed and the links of its DoD task replaced
\* between the two syncs; the store still holds the active sprint and the
\* evidence of the first.
C27_Witness ==
    /\ SameMapping
    /\ \E r \in sprintRows :
          /\ board[r.jira_sprint_id] = ClosedSprint
          /\ r.sprint_state = "active"
          /\ r.sprint_name = "Sprint"
    /\ \E t \in taskRows :
          /\ remoteLinks[t.jira_key] = NextLinks(t.jira_key)
          /\ t.has_evidence_link # Bool(first_remote_link(t.jira_key))

(***************************************************************************)
(* The retry of a failed sync.                                             *)
(***************************************************************************)
\* The fingerprint _build_issue_versions gives the sprint over the tracker as it is.
CurrentVersions(sprint_id) ==
    LET in_sprint == issues_in_sprint(search_active_sprint_issues, sprint_id)
    IN  build_issue_versions(ByKeyOrder(in_sprint), BuildByKey(in_sprint))

\* The call of process 1 has returned, the call before it failed, and the
\* tracker is as both calls saw it.
Retried ==
    /\ sync[1].pc = "done"
    /\ sync[1].before.outcome = "failed"
    /\ sync[1].seen = sync[1].before.updated
    /\ updated = sync[1].seen

\* C28: the sync that follows a failed sync over the same tracker state
\* skips the sprints the failed sync committed and creates a generation for
\* each sprint that had none with this fingerprint, and for no other; every
\* sprint of the batch ends with its newest generation carrying the
\* fingerprint, one generation from the two calls together.
C28_RetryConverges ==
    Retried =>
        \A sprint_id \in BatchSprints :
            LET committed == {r \in SnapshotsOf(sprint_id) : r.id \in sync[1].before.committed}
                created == {r \in SnapshotsOf(sprint_id) : r.id \in sync[1].mine.sprints}
                before == {r \in sync[1].db_before.sprints : r.jira_sprint_id = sprint_id}
                had == /\ before # {}
                       /\ Newest(before).issue_versions = CurrentVersions(sprint_id)
            IN  /\ committed # {} => created = {}
                /\ created = {} <=> had
                /\ Cardinality(committed \cup created) <= 1
                /\ SnapshotsOf(sprint_id) # {}
                /\ Newest(SnapshotsOf(sprint_id)).issue_versions = CurrentVersions(sprint_id)

\* The failed sync committed one sprint of the batch and the retry created the other.
C28_Witness ==
    /\ Retried
    /\ Cardinality(BatchSprints) = 2
    /\ Cardinality(sync[1].before.committed) = 1
    /\ Cardinality(sync[1].mine.sprints) = 1
    /\ Cardinality(sprintRows) = 2

(***************************************************************************)
(* The SyncRun records and the store.                                      *)
(***************************************************************************)
RECURSIVE SprintSnapshotsRecorded(_)
SprintSnapshotsRecorded(table) ==
    IF table = <<>> THEN 0
    ELSE table[Len(table)].sprint_snapshots
         + SprintSnapshotsRecorded(SubSeq(table, 1, Len(table) - 1))

\* C30: the SyncRun of a call that returned holds the numbers of rows the
\* call committed, the SyncRun of a call that failed holds three zeros, and
\* while no call runs the sprint_snapshots of all SyncRuns add up to the
\* number of SprintSnapshot rows.
C30_RunRecordsAgreeWithStore ==
    LET l == sync[1]
    IN  /\ l.pc = "done" =>
              /\ syncRuns[l.run].status = "SUCCESS"
              /\ syncRuns[l.run].sprint_snapshots = Cardinality(l.mine.sprints)
              /\ syncRuns[l.run].epic_snapshots = Cardinality(l.mine.epics)
              /\ syncRuns[l.run].dod_task_snapshots = Cardinality(l.mine.tasks)
        /\ \A n \in DOMAIN syncRuns :
              syncRuns[n].status = "FAILED" =>
                  /\ syncRuns[n].sprint_snapshots = 0
                  /\ syncRuns[n].epic_snapshots = 0
                  /\ syncRuns[n].dod_task_snapshots = 0
        /\ (\A p \in Procs : ~Running(p)) =>
              SprintSnapshotsRecorded(syncRuns) = Cardinality(sprintRows)

(***************************************************************************)
(* Two nudge requests at once.                                             *)
(***************************************************************************)
\* C29: of two requests for the same EpicSnapshot served at once, at most
\* one passes the cooldown check, sends an email and creates a NudgeLog: no
\* two NudgeLogs of one EpicSnapshot are of the same instant, and no two
\* requests for one EpicSnapshot are past the check together.
C29_OneNudgeOfTwo ==
    /\ \A a, b \in nudgeLogs :
          (a.epic_snapshot = b.epic_snapshot /\ a.sent_at = b.sent_at) => a = b
    /\ \A p, q \in Procs :
          (req[p].pc # "idle" /\ req[q].pc # "idle" /\ req[p].epic = req[q].epic) => p = q

====
